---- MODULE Spec2Model ----
(***************************************************************************)
(* Verification model of the code-review agent:                            *)
(*   - the review workflow graph built by AgentCore._build_workflow and    *)
(*     run by AgentCore.review_code (graph.ainvoke), executed in           *)
(*     supersteps: every node scheduled for a step runs concurrently, the  *)
(*     updates the bodies return are merged when all of them have ended,   *)
(*     and the edges out of the nodes that ran select the next step;       *)
(*   - the LSP client (LSPClient): request/notification framing, the       *)
(*     pending-request table, the reader loop and its frame parser.        *)
(***************************************************************************)
EXTENDS Integers, Sequences, FiniteSets, TLC

(***************************************************************************)
(* Bounds of the model.                                                    *)
(***************************************************************************)
\* Supersteps after which the model stops scheduling (the real graph ends
\* after four; the cap only bounds faulty variants of the graph).
MaxSteps == 6
\* Request ids the model issues at most (guards request_id).
MaxRequests == 2
\* Notifications the model issues at most.
MaxNotifies == 1
\* Frames put on the reader's stream at most.
MaxFrames == 2
\* Server processes launched at most.
MaxProcs == 2
\* Calls made on the diagnostic tool at most.
MaxCalls == 2

VARIABLES
    \* ---- workflow (AgentCore) ----
    run_status,     \* review_code: "idle" | "running" | "done" (returned) |
                    \* "raised" (a body raised) | "recursion_limit"
    state,          \* the CodeReviewState channels of the run
    node_status,    \* per node, in the current superstep
    writes,         \* updates returned in this superstep, in completion order
    step,           \* number of the current superstep
    visits,         \* per node: how many times its body was started
    seen_flags,     \* per node: the gating flags its body last received
    completion,     \* nodes in the order their bodies completed, whole run
    final_state,    \* what review_code returned ("none" before)
    \* ---- client session (LSPClient) ----
    request_id,         \* self.request_id
    pending_requests,   \* self.pending_requests: id -> future
    diagnostics_cache,  \* self.diagnostics_cache: uri -> records, a dict:
                        \* the entries in the order their keys were first
                        \* stored
    read_task,          \* self._read_task and where its loop stands
    rbuf,               \* self.reader: bytes received and not yet read
    eof,                \* self.reader: the server closed its output
    conn_lost,          \* self.writer: the pipe to the server is gone
    sent,               \* messages given to _send_message, in order (each
                        \* is written as the frame send_message gives)
    handled,            \* messages given to _handle_message, in order
    pc,                 \* per calling task: where it stands
    my_id,              \* per calling task: request_id of its _request call
    wake,               \* per calling task: "timeout" once its deadline fired
    elapsed,            \* per calling task: time spent in wait_for
    outcome,            \* per request id: how the _request call ended
    notified,           \* number of notifications issued
    frames,             \* frames the server has sent, in order
    in_flight,          \* bytes the server has written that the pipe has
                        \* not yet handed to self.reader
    \* ---- diagnostic tool (CodeDiagnosticTool, ServerManager) ----
    lookup,             \* the last get_diagnostics call: its path, what it
                        \* gave, and how many messages had been handled
    tool,               \* CodeDiagnosticTool: is_server_running,
                        \* workspace_path, client (the process it talks to)
    manager,            \* ServerManager: process and data_dir (0 is None)
    procs,              \* the server processes launched, in order
    dirs,               \* the scratch directories made, in order
    callers,            \* per caller of the tool: its call and where it
                        \* stands
    \* ---- review state outside a run (StateManager, the conditions) ----
    current_state,      \* StateManager.current_state (no key: None)
    state_history,      \* StateManager.state_history: copies, in order
    st_call,            \* the last call of the state manager: its updates,
                        \* the state before it and how it ended
    routes,             \* evaluations of _llm_to_other_node: the flags it
                        \* was given and the node it returned
    handoff             \* the last evaluation of a branch's conditional
                        \* edge: the branch, the flags read, the node returned

wf_vars == <<run_status, state, node_status, writes, step, visits,
             seen_flags, completion, final_state>>

cl_vars == <<request_id, pending_requests, diagnostics_cache, read_task, rbuf,
             eof, conn_lost, sent, handled, pc, my_id, wake, elapsed,
             outcome, notified, frames, in_flight>>

tool_vars == <<lookup, tool, manager, procs, dirs, callers>>

st_vars == <<current_state, state_history, st_call, routes, handoff>>

vars == <<wf_vars, cl_vars, tool_vars, st_vars>>

(***************************************************************************)
(* The graph: AgentCore._build_workflow                                    *)
(***************************************************************************)
Nodes == {"start", "read_document_content", "retrieval_vector_database",
          "lsp_diagnostics", "llm_diagnostics", "display_on_github"}

Branches == {"read_document_content", "retrieval_vector_database",
             "lsp_diagnostics"}

\* A faulty variant: the publish node's edge leads back to itself, not to END.
display_loops_back(n) ==
    CASE n = "start" -> Branches
      [] n = "display_on_github" -> {"display_on_github"}
      [] OTHER -> {}

\* workflow.add_edge(...): plain edges; the edge to END has no target node.
PlainEdges(n) ==
    CASE n = "start" -> {"read_document_content", "lsp_diagnostics",
                         "retrieval_vector_database"}
      [] n = "display_on_github" -> {}
      [] OTHER -> {}

Flags(s) == [is_document_read |-> s.is_document_read,
             is_lsp_diagnosed |-> s.is_lsp_diagnosed,
             is_code_retrieved |-> s.is_code_retrieved]

AllFlags(f) == f.is_document_read /\ f.is_lsp_diagnosed /\ f.is_code_retrieved

\* A faulty variant: the edge leaves the branch whatever the flag says.
read_document_always_hands_off(s) == "llm_diagnostics"

read_document_to_llm_condition(s) ==
    IF s.is_document_read THEN "llm_diagnostics" ELSE "read_document_content"

retrieval_database_to_llm_condition(s) ==
    IF s.is_code_retrieved THEN "llm_diagnostics"
    ELSE "retrieval_vector_database"

lsp_diagnostics_to_llm_condition(s) ==
    IF s.is_lsp_diagnosed THEN "llm_diagnostics" ELSE "lsp_diagnostics"

\* A faulty variant: semantic retrieval is checked before diagnostics.
llm_to_other_node_retrieval_first(s) ==
    IF ~s.is_document_read THEN "read_document_content"
    ELSE IF ~s.is_code_retrieved THEN "retrieval_vector_database"
    ELSE IF ~s.is_lsp_diagnosed THEN "lsp_diagnostics"
    ELSE "display_on_github"

\* AgentCore._llm_to_other_node (the same in src/agent/core.py)
llm_to_other_node(s) ==
    IF ~s.is_document_read THEN "read_document_content"
    ELSE IF ~s.is_lsp_diagnosed THEN "lsp_diagnostics"
    ELSE IF ~s.is_code_retrieved THEN "retrieval_vector_database"
    ELSE "display_on_github"

(***************************************************************************)
(* The state: CodeReviewState and its merge (Annotated[..., operator.add]  *)
(* fields are appended to, every other field is replaced).                 *)
(***************************************************************************)

initial_state(git_diff) ==
    [messages |-> <<"Review this code change">>,
     git_diff |-> git_diff,
     document |-> "unset",
     semantic_analysis |-> "unset",
     diagnostics |-> "unset",
     is_document_read |-> FALSE,
     is_code_retrieved |-> FALSE,
     is_lsp_diagnosed |-> FALSE,
     errors |-> <<>>,
     warnings |-> <<>>]

MergeUpdate(s, upd) ==
    LET AppendFields == {"messages", "errors", "warnings"}
    IN  [k \in DOMAIN s |->
            IF k \in DOMAIN upd
            THEN IF k \in AppendFields THEN s[k] \o upd[k] ELSE upd[k]
            ELSE s[k]]

\* A faulty variant: the body returns the document but not its gating flag.
read_document_content_no_flag(s) ==
    [document |-> "doc_text"]

read_document_content(s) ==
    [is_document_read |-> TRUE, document |-> "doc_text"]

retrieval_vector_database(s) ==
    [is_code_retrieved |-> TRUE, semantic_analysis |-> s.git_diff]

lsp_diagnostics(s, diagnostics) ==
    [is_lsp_diagnosed |-> TRUE, diagnostics |-> diagnostics]

\* The updates a node body can return from the state it was given.
NodeUpdates(n, s) ==
    \* The empty update {} returned by _start, _llm_diagnostics, _display_on_github
    LET EmptyUpdate == [k \in {} |-> TRUE]
        DiagnosticResults == {"diag_empty", "diag_found"}
    IN  CASE n = "read_document_content" -> {read_document_content(s)}
          [] n = "retrieval_vector_database" -> {retrieval_vector_database(s)}
          [] n = "lsp_diagnostics" ->
                 {lsp_diagnostics(s, d) : d \in DiagnosticResults}
          [] OTHER -> {EmptyUpdate}

(***************************************************************************)
(* The superstep engine behind graph.ainvoke                               *)
(***************************************************************************)
\* A faulty variant: the results of a step overwrite one another, only the
\* update of the body that completed last is kept.
ApplyWrites_last_only(s, ws) ==
    IF ws = <<>> THEN s ELSE MergeUpdate(s, ws[Len(ws)].update)

\* The updates of a step are merged one at a time, in completion order
RECURSIVE ApplyWrites(_, _)
ApplyWrites(s, ws) ==
    IF ws = <<>> THEN s
    ELSE ApplyWrites(MergeUpdate(s, Head(ws).update), Tail(ws))

NextScheduled(s, ws) ==
    \* Targets selected by the edges of a node that ran; a conditional edge reads
    \* the state of the step's start with the node's own update applied.
    LET Targets(n, s1, upd) ==
            LET ConditionalEdge(n0, s0) ==
                    CASE n0 = "read_document_content" -> read_document_to_llm_condition(s0)
                      [] n0 = "retrieval_vector_database" ->
                             retrieval_database_to_llm_condition(s0)
                      [] n0 = "lsp_diagnostics" -> lsp_diagnostics_to_llm_condition(s0)
                      [] n0 = "llm_diagnostics" -> llm_to_other_node(s0)
            IN  \* workflow.add_conditional_edges(source, condition, table): every table of
                \* the graph maps a name to the node of that name.
                LET ConditionalSources == Branches \cup {"llm_diagnostics"}
                IN  PlainEdges(n) \cup
                    (IF n \in ConditionalSources
                     THEN {ConditionalEdge(n, MergeUpdate(s1, upd))} ELSE {})
    IN  UNION {Targets(ws[i].node, s, ws[i].update) : i \in 1..Len(ws)}

Scheduled == {n \in Nodes : node_status[n] # "idle"}

WfInit ==
    /\ run_status = "idle"
    /\ state = initial_state("diff_a")
    /\ node_status = [n \in Nodes |-> "idle"]
    /\ writes = <<>>
    /\ step = 0
    /\ visits = [n \in Nodes |-> 0]
    /\ seen_flags = [n \in Nodes |-> Flags(initial_state("diff_a"))]
    /\ completion = <<>>
    /\ final_state = "none"

\* review_code: build the initial state and invoke the graph at its entry.
review_code ==
    LET GitDiffs == {"diff_a", "diff_b"}
        EntryPoint == "start"
    IN  /\ run_status = "idle"
        /\ \E d \in GitDiffs : state' = initial_state(d)
        /\ run_status' = "running"
        /\ node_status' = [n \in Nodes |->
                             IF n = EntryPoint THEN "scheduled" ELSE "idle"]
        /\ step' = 1
        /\ UNCHANGED <<writes, visits, seen_flags, completion, final_state>>
        /\ UNCHANGED <<cl_vars, tool_vars, st_vars>>

\* A scheduled node's body starts on a snapshot of the state.
NodeStart(n) ==
    /\ run_status = "running"
    /\ node_status[n] = "scheduled"
    /\ node_status' = [node_status EXCEPT ![n] = "running"]
    /\ visits' = [visits EXCEPT ![n] = @ + 1]
    /\ seen_flags' = [seen_flags EXCEPT ![n] = Flags(state)]
    /\ UNCHANGED <<run_status, state, writes, step, completion, final_state>>
    /\ UNCHANGED <<cl_vars, tool_vars, st_vars>>

\* The body returns its partial update.
NodeFinish(n) ==
    /\ run_status = "running"
    /\ node_status[n] = "running"
    /\ \E upd \in NodeUpdates(n, state) :
          writes' = Append(writes, [node |-> n, update |-> upd])
    /\ node_status' = [node_status EXCEPT ![n] = "finished"]
    /\ completion' = Append(completion, n)
    /\ UNCHANGED <<run_status, state, step, visits, seen_flags, final_state>>
    /\ UNCHANGED <<cl_vars, tool_vars, st_vars>>

\* The body raises: ainvoke raises and review_code returns nothing.
NodeRaise(n) ==
    \* Bodies that can raise: os.listdir, the semantic analyzer and the LSP
    \* analysis; the others only sleep.
    LET CanRaise == Branches
    IN  /\ run_status = "running"
        /\ n \in CanRaise
        /\ node_status[n] = "running"
        /\ run_status' = "raised"
        /\ UNCHANGED <<state, node_status, writes, step, visits, seen_flags,
                       completion, final_state>>
        /\ UNCHANGED <<cl_vars, tool_vars, st_vars>>

\* All bodies of the step have ended: merge, follow the edges.
StepEnd ==
    /\ run_status = "running"
    /\ Scheduled # {}
    /\ \A n \in Scheduled : node_status[n] = "finished"
    /\ LET merged == ApplyWrites(state, writes)
           nxt == NextScheduled(state, writes)
       IN /\ state' = merged
          /\ writes' = <<>>
          /\ IF nxt = {}
             THEN /\ run_status' = "done"
                  /\ final_state' = merged
                  /\ node_status' = [n \in Nodes |-> "idle"]
                  /\ step' = step
             ELSE IF step >= MaxSteps
             THEN /\ run_status' = "recursion_limit"
                  /\ final_state' = final_state
                  /\ node_status' = [n \in Nodes |-> "idle"]
                  /\ step' = step
             ELSE /\ run_status' = "running"
                  /\ final_state' = final_state
                  /\ node_status' = [n \in Nodes |->
                                       IF n \in nxt THEN "scheduled"
                                       ELSE "idle"]
                  /\ step' = step + 1
    /\ UNCHANGED <<visits, seen_flags, completion>>
    /\ UNCHANGED <<cl_vars, tool_vars, st_vars>>

(***************************************************************************)
(* Bytes and text.  A byte stream is a sequence of one-character strings;  *)
(* "U+00E9" stands for one non-ASCII character of a text and "0xFF" for a  *)
(* byte that is not valid UTF-8.                                           *)
(***************************************************************************)
\* The words of the protocol, each as the sequence of its characters
Str ==
    [jsonrpc |-> <<"j", "s", "o", "n", "r", "p", "c">>,
     jsonrpc_version |-> <<"2", ".", "0">>,
     id |-> <<"i", "d">>,
     method |-> <<"m", "e", "t", "h", "o", "d">>,
     params |-> <<"p", "a", "r", "a", "m", "s">>,
     result |-> <<"r", "e", "s", "u", "l", "t">>,
     capabilities |-> <<"c", "a", "p", "a", "b", "i", "l", "i", "t", "i",
         "e", "s">>,
     uri |-> <<"u", "r", "i">>,
     diagnostics |-> <<"d", "i", "a", "g", "n", "o", "s", "t", "i", "c",
         "s">>,
     range |-> <<"r", "a", "n", "g", "e">>,
     start |-> <<"s", "t", "a", "r", "t">>,
     end |-> <<"e", "n", "d">>,
     line |-> <<"l", "i", "n", "e">>,
     character |-> <<"c", "h", "a", "r", "a", "c", "t", "e", "r">>,
     severity |-> <<"s", "e", "v", "e", "r", "i", "t", "y">>,
     message |-> <<"m", "e", "s", "s", "a", "g", "e">>,
     code |-> <<"c", "o", "d", "e">>,
     source |-> <<"s", "o", "u", "r", "c", "e">>,
     textDocument |-> <<"t", "e", "x", "t", "D", "o", "c", "u", "m", "e",
         "n", "t">>,
     text |-> <<"t", "e", "x", "t">>,
     publishDiagnostics |-> <<"t", "e", "x", "t", "D", "o", "c", "u", "m",
         "e", "n", "t", "/", "p", "u", "b", "l", "i", "s", "h", "D", "i",
         "a", "g", "n", "o", "s", "t", "i", "c", "s">>,
     registerCapability |-> <<"c", "l", "i", "e", "n", "t", "/", "r", "e",
         "g", "i", "s", "t", "e", "r", "C", "a", "p", "a", "b", "i", "l",
         "i", "t", "y">>,
     initialize |-> <<"i", "n", "i", "t", "i", "a", "l", "i", "z", "e">>,
     initialized |-> <<"i", "n", "i", "t", "i", "a", "l", "i", "z", "e",
         "d">>,
     shutdown |-> <<"s", "h", "u", "t", "d", "o", "w", "n">>,
     exit |-> <<"e", "x", "i", "t">>,
     didOpen |-> <<"t", "e", "x", "t", "D", "o", "c", "u", "m", "e", "n",
         "t", "/", "d", "i", "d", "O", "p", "e", "n">>,
     didClose |-> <<"t", "e", "x", "t", "D", "o", "c", "u", "m", "e", "n",
         "t", "/", "d", "i", "d", "C", "l", "o", "s", "e">>,
     ContentLength |-> <<"C", "o", "n", "t", "e", "n", "t", "-", "L", "e",
         "n", "g", "t", "h">>,
     ContentType |-> <<"C", "o", "n", "t", "e", "n", "t", "-", "T", "y",
         "p", "e">>,
     file_scheme |-> <<"f", "i", "l", "e", ":", "/", "/">>,
     uri_A |-> <<"f", "i", "l", "e", ":", "/", "/", "/", "w", "/", "A",
         ".", "j", "a", "v", "a">>,
     uri_B |-> <<"f", "i", "l", "e", ":", "/", "/", "/", "w", "/", "B",
         ".", "j", "a", "v", "a">>,
     unused |-> <<"u", "n", "u", "s", "e", "d">>,
     processId |-> <<"p", "r", "o", "c", "e", "s", "s", "I", "d">>,
     rootUri |-> <<"r", "o", "o", "t", "U", "r", "i">>,
     languageId |-> <<"l", "a", "n", "g", "u", "a", "g", "e", "I", "d">>,
     version |-> <<"v", "e", "r", "s", "i", "o", "n">>,
     java |-> <<"j", "a", "v", "a">>,
     uri_W |-> <<"f", "i", "l", "e", ":", "/", "/", "/", "w">>,
     publishDiagnosticsKey |-> <<"p", "u", "b", "l", "i", "s", "h", "D", "i",
         "a", "g", "n", "o", "s", "t", "i", "c", "s">>]

CR == "\r"
LF == "\n"
Whitespace == {" ", "\t", CR, LF}
Digits == {"0", "1", "2", "3", "4", "5", "6", "7", "8", "9"}

DigitChar(d) ==
    CASE d = 0 -> "0" [] d = 1 -> "1" [] d = 2 -> "2" [] d = 3 -> "3"
      [] d = 4 -> "4" [] d = 5 -> "5" [] d = 6 -> "6" [] d = 7 -> "7"
      [] d = 8 -> "8" [] d = 9 -> "9"

\* str(n) for an integer n
RECURSIVE NatToChars(_)
NatToChars(n) ==
    IF n < 10 THEN <<DigitChar(n)>>
    ELSE NatToChars(n \div 10) \o <<DigitChar(n % 10)>>

IntToChars(n) == IF n < 0 THEN <<"-">> \o NatToChars(0 - n) ELSE NatToChars(n)

\* str.strip(): leading and trailing whitespace removed
RECURSIVE LStrip(_)
LStrip(s) ==
    IF s # <<>> /\ Head(s) \in Whitespace THEN LStrip(Tail(s)) ELSE s

RECURSIVE RStrip(_)
RStrip(s) ==
    IF s # <<>> /\ s[Len(s)] \in Whitespace
    THEN RStrip(SubSeq(s, 1, Len(s) - 1)) ELSE s

Strip(s) == RStrip(LStrip(s))

\* Index of the first occurrence of byte c in s, 0 when there is none
IndexOf(s, c) ==
    IF \E i \in 1..Len(s) : s[i] = c
    THEN CHOOSE i \in 1..Len(s) : s[i] = c /\ \A j \in 1..(i - 1) : s[j] # c
    ELSE 0

RECURSIVE DigitsToNat(_, _)
DigitsToNat(s, acc) ==
    LET DigitValue(c) == CHOOSE d \in 0..9 : DigitChar(d) = c
    IN  IF s = <<>> THEN acc
        ELSE DigitsToNat(Tail(s), acc * 10 + DigitValue(Head(s)))

\* int(text): optional sign, then digits; anything else is a ValueError
ParseInt(text) ==
    LET s == Strip(text)
        signed == s # <<>> /\ Head(s) \in {"-", "+"}
        body == IF signed THEN Tail(s) ELSE s
    IN IF body # <<>> /\ \A i \in 1..Len(body) : body[i] \in Digits
       THEN [ok |-> TRUE,
             val |-> IF signed /\ Head(s) = "-"
                     THEN 0 - DigitsToNat(body, 0) ELSE DigitsToNat(body, 0)]
       ELSE [ok |-> FALSE, val |-> 0]

(***************************************************************************)
(* JSON values and json.dumps (default separators, ensure_ascii)           *)
(***************************************************************************)
JNull == [t |-> "null"]
JBool(b) == [t |-> "bool", v |-> b]
JInt(n) == [t |-> "int", v |-> n]
JStr(chars) == [t |-> "str", v |-> chars]
JArr(items) == [t |-> "arr", items |-> items]
\* an object is the sequence of its <<key, value>> pairs, in insertion order
JObj(kv) == [t |-> "obj", kv |-> kv]

IsObj(v) == v.t = "obj"
ObjHas(o, key) == \E i \in 1..Len(o.kv) : o.kv[i][1] = key
ObjGet(o, key) == o.kv[CHOOSE i \in 1..Len(o.kv) : o.kv[i][1] = key][2]
\* dict.get(key, default)
ObjGetOr(o, key, default) == IF ObjHas(o, key) THEN ObjGet(o, key) ELSE default

EscapeChar(c) ==
    CASE c = "\"" -> <<"\\", "\"">>
      [] c = "\\" -> <<"\\", "\\">>
      [] c = LF -> <<"\\", "n">>
      [] c = CR -> <<"\\", "r">>
      [] c = "\t" -> <<"\\", "t">>
      [] c = "U+00E9" -> <<"\\", "u", "0", "0", "e", "9">>
      [] OTHER -> <<c>>

RECURSIVE EscapeChars(_)
EscapeChars(s) ==
    IF s = <<>> THEN <<>>
    ELSE IF Len(s) = 1 THEN EscapeChar(s[1])
    ELSE LET h == Len(s) \div 2
         IN EscapeChars(SubSeq(s, 1, h))
            \o EscapeChars(SubSeq(s, h + 1, Len(s)))

Quoted(s) == <<"\"">> \o EscapeChars(s) \o <<"\"">>

RECURSIVE JsonDumps(_), DumpItems(_), DumpPairs(_)
JsonDumps(v) ==
    CASE v.t = "null" -> <<"n", "u", "l", "l">>
      [] v.t = "bool" -> IF v.v THEN <<"t", "r", "u", "e">>
                         ELSE <<"f", "a", "l", "s", "e">>
      [] v.t = "int" -> IntToChars(v.v)
      [] v.t = "str" -> Quoted(v.v)
      [] v.t = "arr" -> <<"[">> \o DumpItems(v.items) \o <<"]">>
      [] v.t = "obj" -> <<"{">> \o DumpPairs(v.kv) \o <<"}">>

DumpItems(items) ==
    IF items = <<>> THEN <<>>
    ELSE JsonDumps(Head(items)) \o
         (IF Len(items) > 1 THEN <<",", " ">> \o DumpItems(Tail(items))
          ELSE <<>>)

DumpPairs(kv) ==
    IF kv = <<>> THEN <<>>
    ELSE Quoted(Head(kv)[1]) \o <<":", " ">> \o JsonDumps(Head(kv)[2]) \o
         (IF Len(kv) > 1 THEN <<",", " ">> \o DumpPairs(Tail(kv)) ELSE <<>>)

(***************************************************************************)
(* json.loads: a value and its end, or a failure (json.JSONDecodeError).   *)
(* The alphabet of texts is ASCII and U+00E9; the numbers are integers.    *)
(* An intermediate result is bound as the element of a one-element set, so *)
(* that it is computed once where it is used more than once.               *)
(***************************************************************************)
Only(S) == CHOOSE x \in S : TRUE

\* the character at index i, "" past the end
At(s, i) == IF i \in 1..Len(s) THEN s[i] ELSE ""

\* the first index from i on that holds no JSON whitespace
RECURSIVE SkipWs(_, _)
SkipWs(s, i) == IF At(s, i) \in Whitespace THEN SkipWs(s, i + 1) ELSE i

ParseFail == [ok |-> FALSE, val |-> JNull, pos |-> 0]
Parsed(value, pos) == [ok |-> TRUE, val |-> value, pos |-> pos]

Literal(s, i, word) ==
    /\ i + Len(word) - 1 <= Len(s)
    /\ SubSeq(s, i, i + Len(word) - 1) = word

\* the quote that closes a string, sought from j on; 0 when there is none
RECURSIVE ClosingQuote(_, _)
ClosingQuote(s, j) ==
    CASE At(s, j) = "" -> 0
      [] At(s, j) = "\"" -> j
      [] At(s, j) = "\\" -> ClosingQuote(s, j + 2)
      [] OTHER -> ClosingQuote(s, j + 1)

\* the text from j up to the closing quote at end is a legal string body
RECURSIVE StringValid(_, _, _)
StringValid(s, j, end) ==
    IF j >= end THEN TRUE
    ELSE IF s[j] \in {LF, CR, "\t"} THEN FALSE
    ELSE IF s[j] # "\\" THEN StringValid(s, j + 1, end)
    ELSE IF s[j + 1] \in {"\"", "\\", "/", "n", "r", "t"}
    THEN StringValid(s, j + 2, end)
    ELSE /\ s[j + 1] = "u"
         /\ j + 5 < end
         /\ SubSeq(s, j + 2, j + 5) = <<"0", "0", "e", "9">>
         /\ StringValid(s, j + 6, end)

Unescape(c) ==
    CASE c = "\"" -> "\"" [] c = "\\" -> "\\" [] c = "/" -> "/"
      [] c = "n" -> LF [] c = "r" -> CR [] c = "t" -> "\t"

\* the characters that a legal string body from j up to end stands for
RECURSIVE StringChars(_, _, _)
StringChars(s, j, end) ==
    IF j >= end THEN <<>>
    ELSE IF s[j] # "\\" THEN <<s[j]>> \o StringChars(s, j + 1, end)
    ELSE IF s[j + 1] = "u" THEN <<"U+00E9">> \o StringChars(s, j + 6, end)
    ELSE <<Unescape(s[j + 1])>> \o StringChars(s, j + 2, end)

\* a string whose opening quote is at i
ParseString(s, i) ==
    Only({IF end # 0 /\ StringValid(s, i + 1, end)
          THEN Parsed(JStr(StringChars(s, i + 1, end)), end + 1)
          ELSE ParseFail :
            end \in {ClosingQuote(s, i + 1)}})

\* the first index from i on that holds no digit
RECURSIVE SkipDigits(_, _)
SkipDigits(s, i) == IF At(s, i) \in Digits THEN SkipDigits(s, i + 1) ELSE i

\* an integer whose first character is at i: -?(0|[1-9][0-9]*)
ParseNumber(s, i) ==
    LET d == IF At(s, i) = "-" THEN i + 1 ELSE i
        stop == IF At(s, d) = "0" THEN d + 1 ELSE SkipDigits(s, d)
    IN IF At(s, d) \notin Digits THEN ParseFail
       ELSE Parsed(JInt(IF d = i THEN DigitsToNat(SubSeq(s, d, stop - 1), 0)
                        ELSE 0 - DigitsToNat(SubSeq(s, d, stop - 1), 0)),
                   stop)

\* dict[key] = value: a key met again keeps its place and takes the value
ObjPut(kv, key, value) ==
    IF \E n \in 1..Len(kv) : kv[n][1] = key
    THEN [n \in 1..Len(kv) |->
             IF kv[n][1] = key THEN <<key, value>> ELSE kv[n]]
    ELSE Append(kv, <<key, value>>)

RECURSIVE ParseValue(_, _), ParseItems(_, _, _), ParsePairs(_, _, _)
ParseValue(s, i) ==
    CASE At(s, i) = "n" ->
            IF Literal(s, i, <<"n", "u", "l", "l">>)
            THEN Parsed(JNull, i + 4) ELSE ParseFail
      [] At(s, i) = "t" ->
            IF Literal(s, i, <<"t", "r", "u", "e">>)
            THEN Parsed(JBool(TRUE), i + 4) ELSE ParseFail
      [] At(s, i) = "f" ->
            IF Literal(s, i, <<"f", "a", "l", "s", "e">>)
            THEN Parsed(JBool(FALSE), i + 5) ELSE ParseFail
      [] At(s, i) = "\"" -> ParseString(s, i)
      [] At(s, i) = "-" \/ At(s, i) \in Digits -> ParseNumber(s, i)
      [] At(s, i) = "[" ->
            Only({IF At(s, p) = "]" THEN Parsed(JArr(<<>>), p + 1)
                  ELSE ParseItems(s, p, <<>>) : p \in {SkipWs(s, i + 1)}})
      [] At(s, i) = "{" ->
            Only({IF At(s, p) = "}" THEN Parsed(JObj(<<>>), p + 1)
                  ELSE ParsePairs(s, p, <<>>) : p \in {SkipWs(s, i + 1)}})
      [] OTHER -> ParseFail

\* what follows an item or a member that ends before p: a comma and the rest,
\* or the closing bracket
ParseItems(s, i, acc) ==
    Only({IF ~item.ok THEN ParseFail
          ELSE Only({IF At(s, p) = ","
                     THEN Only({ParseItems(s, n, items) :
                                  n \in {SkipWs(s, p + 1)}})
                     ELSE IF At(s, p) = "]" THEN Parsed(JArr(items), p + 1)
                     ELSE ParseFail :
                       p \in {SkipWs(s, item.pos)},
                       items \in {Append(acc, item.val)}}) :
            item \in {ParseValue(s, i)}})

\* a member: a string, a colon, a value
ParseMember(s, i) ==
    Only({IF ~key.ok THEN ParseFail
          ELSE Only({IF At(s, colon) # ":" THEN ParseFail
                     ELSE Only({IF ~value.ok THEN ParseFail
                                ELSE Parsed(<<key.val.v, value.val>>,
                                            value.pos) :
                                  value \in {ParseValue(s,
                                                SkipWs(s, colon + 1))}}) :
                       colon \in {SkipWs(s, key.pos)}}) :
            key \in {IF At(s, i) = "\"" THEN ParseString(s, i)
                     ELSE ParseFail}})

ParsePairs(s, i, acc) ==
    Only({IF ~member.ok THEN ParseFail
          ELSE Only({IF At(s, p) = ","
                     THEN Only({ParsePairs(s, n, kv) :
                                  n \in {SkipWs(s, p + 1)}})
                     ELSE IF At(s, p) = "}" THEN Parsed(JObj(kv), p + 1)
                     ELSE ParseFail :
                       p \in {SkipWs(s, member.pos)},
                       kv \in {ObjPut(acc, member.val[1], member.val[2])}}) :
            member \in {ParseMember(s, i)}})

\* json.loads(text): ok = FALSE stands for json.JSONDecodeError
Loads(chars) ==
    Only({IF r.ok /\ SkipWs(chars, r.pos) > Len(chars)
          THEN [ok |-> TRUE, val |-> r.val]
          ELSE [ok |-> FALSE, val |-> JNull] :
            r \in {ParseValue(chars, SkipWs(chars, 1))}})

(***************************************************************************)
(* UTF-8: str.encode('utf-8') and bytes.decode('utf-8')                    *)
(***************************************************************************)

\* (the recursions over texts halve them, to keep the evaluation shallow)
RECURSIVE Utf8Encode(_)
Utf8Encode(chars) ==
    LET EncodeChar(c) == IF c = "U+00E9" THEN <<"0xC3", "0xA9">> ELSE <<c>>
    IN  IF chars = <<>> THEN <<>>
        ELSE IF Len(chars) = 1 THEN EncodeChar(chars[1])
        ELSE LET h == Len(chars) \div 2
             IN Utf8Encode(SubSeq(chars, 1, h))
                \o Utf8Encode(SubSeq(chars, h + 1, Len(chars)))

\* bytes.decode('utf-8'): ok = FALSE stands for UnicodeDecodeError
Utf8Decode(bytes) ==
    LET Utf8Valid(bytes1) ==
            LET InvalidUtf8 == {"0xFF"}
            IN  \A i \in 1..Len(bytes1) :
                   /\ bytes1[i] \notin InvalidUtf8
                   /\ bytes1[i] = "0xC3" => (i < Len(bytes1) /\ bytes1[i + 1] = "0xA9")
                   /\ bytes1[i] = "0xA9" => (i > 1 /\ bytes1[i - 1] = "0xC3")
        Utf8DecodeChars(bytes0) ==
            LET IsLeadOrAscii(b) == b # "0xA9"
                lead == SelectSeq(bytes0, IsLeadOrAscii)
            IN [i \in 1..Len(lead) |->
                  IF lead[i] = "0xC3" THEN "U+00E9" ELSE lead[i]]
    IN  IF Utf8Valid(bytes) THEN [ok |-> TRUE, chars |-> Utf8DecodeChars(bytes)]
        ELSE [ok |-> FALSE, chars |-> <<>>]

(***************************************************************************)
(* Messages of the protocol                                                *)
(***************************************************************************)
RequestIds == 1..MaxRequests

EmptyObj == JObj(<<>>)

\* LSPClient._request, lines 95-100
RequestMessage(id, method, params) ==
    JObj(<< <<Str.jsonrpc, JStr(Str.jsonrpc_version)>>, <<Str.id, JInt(id)>>,
            <<Str.method, JStr(method)>>, <<Str.params, params>> >>)

\* LSPClient._notify, lines 117-121
NotifyMessage(method, params) ==
    JObj(<< <<Str.jsonrpc, JStr(Str.jsonrpc_version)>>,
            <<Str.method, JStr(method)>>,
            <<Str.params, params>> >>)

DidOpenParams(uri) ==
    \* open_document: the text of a document with a non-ASCII character, a quote
    \* and a newline
    JObj(<< <<Str.textDocument,
              JObj(<< <<Str.uri, JStr(uri)>>,
                      <<Str.languageId, JStr(Str.java)>>,
                      <<Str.version, JInt(1)>>,
                      <<Str.text, JStr(<<"a", "U+00E9", "\"", LF>>)>> >>)>> >>)

\* initialize: init_params
InitParams ==
    JObj(<< <<Str.processId, JNull>>,
            <<Str.rootUri, JStr(Str.uri_W)>>,
            <<Str.capabilities,
              JObj(<< <<Str.textDocument,
                        JObj(<< <<Str.publishDiagnosticsKey, EmptyObj>> >>)>>
                   >>)>> >>)

\* What a server answers and announces.
InitializeResult == JObj(<< <<Str.capabilities, EmptyObj>> >>)

Response(id, result) ==
    JObj(<< <<Str.id, JInt(id)>>, <<Str.result, result>> >>)

WirePosition(line, character) ==
    JObj(<< <<Str.line, JInt(line)>>, <<Str.character, JInt(character)>> >>)

WireDiagnostic(line, severity) ==
    JObj(<< <<Str.range,
              JObj(<< <<Str.start, WirePosition(line, 0)>>,
                      <<Str.end, WirePosition(line, 1)>> >>)>>,
            <<Str.severity, JInt(severity)>>,
            <<Str.message, JStr(<<"m">>)>> >>)

PublishDiagnostics(uri, entries) ==
    NotifyMessage(Str.publishDiagnostics,
        JObj(<< <<Str.uri, JStr(uri)>>, <<Str.diagnostics, JArr(entries)>> >>))

ServerRequests ==
    \* A request of the server to the client (it carries a method and an id of the
    \* server's own numbering).
    {JObj(<< <<Str.id, JInt(k)>>,
             <<Str.method, JStr(Str.registerCapability)>> >>) :
        k \in RequestIds}

BadNotifications ==
    \* an entry without its range
    {PublishDiagnostics(Str.uri_A,
                        <<JObj(<< <<Str.message, JStr(<<"m">>)>> >>)>>)}

\* The files the lookups are about, as native paths, and the URI forms a
\* server may name them by: ab is /w/a b (its URI as Path.as_uri gives it,
\* with every character escaped that may be, and with none escaped), B is
\* /w/B.java, no file has the path "unrecorded", and "relative" is a b seen
\* from the working directory.
Files ==
    [ab |-> <<"/", "w", "/", "a", " ", "b">>,
     ab_escaped |-> Str.file_scheme \o <<"/", "w", "/", "a", "%", "2", "0",
                                         "b">>,
     ab_all_escaped |-> Str.file_scheme \o <<"/", "w", "/", "%", "6", "1",
                                             "%", "2", "0", "b">>,
     ab_unescaped |-> Str.file_scheme \o <<"/", "w", "/", "a", " ", "b">>,
     B |-> <<"/", "w", "/", "B", ".", "j", "a", "v", "a">>,
     unrecorded |-> <<"/", "w", "/", "n">>,
     relative |-> <<"a", " ", "b">>]

\* Publications for those files, and one whose uri is a number
CacheNotifications ==
    {PublishDiagnostics(u, e) :
        u \in {Files.ab_escaped, Files.ab_all_escaped, Files.ab_unescaped},
        e \in {<<>>, <<WireDiagnostic(0, 1)>>}}
    \cup {PublishDiagnostics(Str.uri_B, <<WireDiagnostic(d[1], d[2])>>) :
             d \in {<<1, 2>>, <<2, 3>>, <<0, 4>>}}
    \cup {NotifyMessage(Str.publishDiagnostics,
                        JObj(<< <<Str.uri, JInt(5)>>,
                                <<Str.diagnostics, JArr(<<>>)>> >>))}
ClientMessages ==
    \* The calls of _request and of _notify that the client makes
    {RequestMessage(k, c.method, c.params) :
        k \in RequestIds,
        c \in {[method |-> Str.initialize, params |-> InitParams],
               [method |-> Str.shutdown, params |-> EmptyObj]}}
    \cup {NotifyMessage(c.method, c.params) :
             c \in {[method |-> Str.initialized, params |-> EmptyObj],
                    [method |-> Str.exit, params |-> EmptyObj],
                    [method |-> Str.didOpen,
                     params |-> DidOpenParams(Str.uri_A)],
                    [method |-> Str.didClose,
                     params |->
                         JObj(<< <<Str.textDocument,
                                   JObj(<< <<Str.uri, JStr(Str.uri_A)>>
                                        >>)>> >>)]}}

\* The texts of the messages above, each parsed once; any other text is
\* parsed where it is met.
MessageTexts ==
    {JsonDumps(m) :
        m \in ClientMessages \cup ServerRequests \cup BadNotifications
              \cup CacheNotifications
              \cup {Response(k, r) :
                       k \in RequestIds, r \in {JNull, InitializeResult}}
              \cup {PublishDiagnostics(u, e) :
                       u \in {Str.uri_A, Str.uri_B},
                       e \in {<<>>, <<WireDiagnostic(0, 1)>>}}}

LoadsOfText == [text \in MessageTexts |-> Loads(text)]

JsonLoads(chars) ==
    IF chars \in MessageTexts THEN LoadsOfText[chars] ELSE Loads(chars)

(***************************************************************************)
(* Framing: LSPClient._send_message                                        *)
(***************************************************************************)
HeaderLine(name, value) == name \o <<":", " ">> \o value \o <<CR, LF>>

\* A faulty variant: the length of the text, with a terminator counted in.
send_message_length_off_by_one(message) ==
    LET content == Utf8Encode(JsonDumps(message))
    IN HeaderLine(Str.ContentLength, IntToChars(Len(content) + 1))
       \o <<CR, LF>> \o content

send_message(message) ==
    LET content == Utf8Encode(JsonDumps(message))
    IN HeaderLine(Str.ContentLength, IntToChars(Len(content)))
       \o <<CR, LF>> \o content

(***************************************************************************)
(* Diagnostic.from_lsp                                                     *)
(***************************************************************************)
\* Position takes the keys of data as its keywords: data must be an object
\* with exactly line and character
IsPosition(p) ==
    /\ IsObj(p)
    /\ {p.kv[i][1] : i \in 1..Len(p.kv)} = {Str.line, Str.character}

PositionOf(p) ==
    [line |-> ObjGet(p, Str.line), character |-> ObjGet(p, Str.character)]

\* Defined where FromLspOk holds; elsewhere from_lsp raises.
from_lsp(data) ==
    [range |-> [start |-> PositionOf(ObjGet(ObjGet(data, Str.range),
                                            Str.start)),
                end |-> PositionOf(ObjGet(ObjGet(data, Str.range), Str.end))],
     severity |-> ObjGetOr(data, Str.severity, JInt(3)),
     message |-> ObjGet(data, Str.message),
     code |-> ObjGetOr(data, Str.code, JNull),
     source |-> ObjGetOr(data, Str.source, JNull)]

(***************************************************************************)
(* LSPClient._handle_message, on the session record                        *)
(*   [pending, cache, handled, ...]; raised = TRUE when it raises          *)
(***************************************************************************)
Future(st, msg) == [st |-> st, msg |-> msg]
PendingFuture == Future("pending", JNull)

\* x in container, for a string x: "true", "false" or "TypeError"
Contains(message, key) ==
    CASE message.t = "obj" -> IF ObjHas(message, key) THEN "true" ELSE "false"
      [] message.t = "arr" ->
            IF \E i \in 1..Len(message.items) : message.items[i] = JStr(key)
            THEN "true" ELSE "false"
      [] message.t = "str" ->
            IF \E i \in 0..(Len(message.v) - Len(key)) :
                  SubSeq(message.v, i + 1, i + Len(key)) = key
            THEN "true" ELSE "false"
      [] OTHER -> "TypeError"

Hashable(v) == v.t \notin {"arr", "obj"}

PublishedRecords(params) ==
    LET data == ObjGetOr(params, Str.diagnostics, JArr(<<>>)).items
    IN [i \in 1..Len(data) |-> from_lsp(data[i])]

Raise(s) == [s EXCEPT !.raised = TRUE]

\* A faulty variant: a future cancelled by its deadline is not told apart.
never_cancelled(future) == FALSE

\* future.cancelled()
future_cancelled(future) == future.st = "cancelled"

handle_message(s, message) ==
    \* cache[uri] = records: a key already there keeps its place
    LET CacheStore(cache0, uri0, records) ==
            IF \E i \in 1..Len(cache0) : cache0[i].uri = uri0
            THEN [i \in 1..Len(cache0) |->
                     IF cache0[i].uri = uri0
                     THEN [uri |-> uri0, records |-> records] ELSE cache0[i]]
            ELSE Append(cache0, [uri |-> uri0, records |-> records])
        PublishOk(params0) ==
            LET FromLspOk(data) ==
                    /\ IsObj(data)
                    /\ ObjHas(data, Str.range)
                    /\ IsObj(ObjGet(data, Str.range))
                    /\ ObjHas(ObjGet(data, Str.range), Str.start)
                    /\ IsPosition(ObjGet(ObjGet(data, Str.range), Str.start))
                    /\ ObjHas(ObjGet(data, Str.range), Str.end)
                    /\ IsPosition(ObjGet(ObjGet(data, Str.range), Str.end))
                    /\ ObjHas(data, Str.message)
            IN  /\ IsObj(params0)
                /\ ObjGetOr(params0, Str.diagnostics, JArr(<<>>)).t = "arr"
                /\ \A i \in 1..Len(ObjGetOr(params0, Str.diagnostics, JArr(<<>>)).items) :
                      FromLspOk(ObjGetOr(params0, Str.diagnostics, JArr(<<>>)).items[i])
                /\ Hashable(ObjGetOr(params0, Str.uri, JStr(<<>>)))
    IN  \* message["id"] in self.pending_requests
        LET IdIsPending(message0, pending0) ==
                /\ ObjGet(message0, Str.id).t = "int"
                /\ ObjGet(message0, Str.id).v \in DOMAIN pending0
        IN  IF message.t # "obj"
            THEN \* "id" in message, then message["id"]; "method" in message, ...
                 IF Contains(message, Str.id) = "false"
                    /\ Contains(message, Str.method) = "false"
                 THEN s ELSE Raise(s)
            ELSE IF ObjHas(message, Str.id) /\ ~Hashable(ObjGet(message, Str.id))
            THEN Raise(s)
            ELSE IF ObjHas(message, Str.id) /\ IdIsPending(message, s.pending)
            THEN LET k == ObjGet(message, Str.id).v
                 IN CASE future_cancelled(s.pending[k]) -> s
                      [] s.pending[k].st = "done" -> Raise(s)  \* InvalidStateError
                      [] OTHER -> [s EXCEPT !.pending[k] = Future("done", message)]
            ELSE IF ObjHas(message, Str.method)
            THEN IF ObjGet(message, Str.method) = JStr(Str.publishDiagnostics)
                 THEN LET params == ObjGetOr(message, Str.params, EmptyObj)
                      IN IF PublishOk(params)
                         THEN [s EXCEPT !.cache =
                                  CacheStore(s.cache,
                                             ObjGetOr(params, Str.uri, JStr(<<>>)),
                                             PublishedRecords(params))]
                         ELSE Raise(s)
                 ELSE s
            ELSE s

(***************************************************************************)
(* LSPClient._read_messages, on the session record                         *)
(*   [status, at, headers, content_length, rbuf, eof, pending, cache,      *)
(*    handled, raised]                                                     *)
(* The loop runs without suspending while the bytes it asks for are in the *)
(* stream's buffer: readline() needs a whole line (or EOF), read(n) needs  *)
(* one byte (or EOF) and returns at most n bytes.                          *)
(***************************************************************************)
NoHeaders == [k \in {} |-> <<>>]

HasLine(s) == IndexOf(s.rbuf, LF) # 0

ReaderBlocked(s) ==
    IF s.at = "readline" THEN ~HasLine(s) /\ ~s.eof
    ELSE \/ s.content_length > 0 /\ s.rbuf = <<>> /\ ~s.eof
         \/ s.content_length < 0 /\ ~s.eof

Ended(s, how) == [s EXCEPT !.status = how]

\* One readline() of the header loop and what follows it up to the next await
ReadlineStep(s) ==
    \* headers[key.strip()] = value.strip() for a line with a colon
    LET HeaderPut(headers0, line0) ==
            LET i == IndexOf(line0, ":")
                key == Strip(SubSeq(line0, 1, i - 1))
                value == Strip(SubSeq(line0, i + 1, Len(line0)))
            IN [k \in DOMAIN headers0 \cup {key} |->
                   IF k = key THEN value ELSE headers0[k]]
        n == IF HasLine(s) THEN IndexOf(s.rbuf, LF) ELSE Len(s.rbuf)
        raw == SubSeq(s.rbuf, 1, n)
        rest == SubSeq(s.rbuf, n + 1, Len(s.rbuf))
        s1 == [s EXCEPT !.rbuf = rest]
        dec == Utf8Decode(raw)
        line == Strip(dec.chars)
    IN IF raw = <<>> THEN Ended(s1, "returned")
       ELSE IF ~dec.ok THEN Ended(s1, "crashed")
       ELSE IF line = <<>>
       THEN \* the blank line: the headers are complete
            IF Str.ContentLength \notin DOMAIN s.headers
            THEN [s1 EXCEPT !.headers = NoHeaders]
            ELSE LET len == ParseInt(s.headers[Str.ContentLength])
                 IN IF ~len.ok THEN Ended(s1, "crashed")
                    ELSE [s1 EXCEPT !.at = "read",
                                    !.content_length = len.val]
       ELSE IF IndexOf(line, ":") # 0
       THEN [s1 EXCEPT !.headers = HeaderPut(s.headers, line)]
       ELSE s1

\* read(content_length), json.loads and _handle_message
ReadStep(s) ==
    LET n == IF s.content_length < 0 THEN Len(s.rbuf)
             ELSE IF s.content_length < Len(s.rbuf) THEN s.content_length
             ELSE Len(s.rbuf)
        content == SubSeq(s.rbuf, 1, n)
        s1 == [s EXCEPT !.rbuf = SubSeq(s.rbuf, n + 1, Len(s.rbuf)),
                        !.at = "readline", !.headers = NoHeaders,
                        !.content_length = 0]
        dec == Utf8Decode(content)
        msg == JsonLoads(dec.chars)
    IN IF ~dec.ok THEN Ended(s1, "crashed")
       ELSE IF ~msg.ok THEN s1
       ELSE LET s2 == handle_message(
                        [s1 EXCEPT !.handled = Append(@, msg.val)], msg.val)
            IN IF s2.raised THEN Ended(s2, "crashed") ELSE s2

ReaderStep(s) == IF s.at = "readline" THEN ReadlineStep(s) ELSE ReadStep(s)

RECURSIVE read_messages(_)
read_messages(s) ==
    IF s.status # "running" \/ ReaderBlocked(s) THEN s
    ELSE read_messages(ReaderStep(s))

(***************************************************************************)
(* The client session: state                                               *)
(***************************************************************************)
\* asyncio.wait_for(future, timeout=30.0)
RequestTimeout == 30

Tasks == {"t1", "t2"}

None == JNull
Returned(value) == [value |-> value, kind |-> "returned"]
Raised(error) == [value |-> JStr(<<error>>), kind |-> "raised"]
Open == [value |-> JNull, kind |-> "open"]

(***************************************************************************)
(* LSPClient.get_diagnostics and Diagnostic.to_dict                        *)
(* Paths and URIs are texts as the frames carry them. The file system of   *)
(* the model has no symbolic links, and the working directory is /w.       *)
(***************************************************************************)
\* urllib.parse: the escape of each character of the model's texts that
\* quote() escapes (it leaves letters, digits, "/", "." and "_-~" alone),
\* and the character of each escape that unquote() meets in them.
PercentCodes ==
    [escape |-> (" " :> <<"2", "0">>) @@ ("%" :> <<"2", "5">>)
                @@ (":" :> <<"3", "A">>),
     char |-> (<<"2", "0">> :> " ") @@ (<<"2", "5">> :> "%")
              @@ (<<"3", "A">> :> ":") @@ (<<"6", "1">> :> "a")]

\* urllib.parse.quote_from_bytes(path), safe = "/"
RECURSIVE quote(_)
quote(chars) ==
    IF chars = <<>> THEN <<>>
    ELSE (IF Head(chars) \in DOMAIN PercentCodes.escape
          THEN <<"%">> \o PercentCodes.escape[Head(chars)]
          ELSE <<Head(chars)>>) \o quote(Tail(chars))

\* urllib.parse.unquote(text): every escape is replaced by its character
RECURSIVE unquote(_)
unquote(chars) ==
    IF chars = <<>> THEN <<>>
    ELSE IF /\ Head(chars) = "%"
            /\ Len(chars) >= 3
            /\ SubSeq(chars, 2, 3) \in DOMAIN PercentCodes.char
    THEN <<PercentCodes.char[SubSeq(chars, 2, 3)]>>
         \o unquote(SubSeq(chars, 4, Len(chars)))
    ELSE <<Head(chars)>> \o unquote(Tail(chars))

\* str.replace(old, new): every occurrence, left to right
RECURSIVE replace(_, _, _)
replace(chars, old, new) ==
    IF Len(chars) < Len(old) THEN chars
    ELSE IF SubSeq(chars, 1, Len(old)) = old
    THEN new \o replace(SubSeq(chars, Len(old) + 1, Len(chars)), old, new)
    ELSE <<Head(chars)>> \o replace(Tail(chars), old, new)

\* pathlib.Path(text) on POSIX: whether it is absolute, and its components
\* (empty ones and "." are dropped when the path is parsed)
RECURSIVE Path(_)
Path(chars) ==
    IF chars = <<>> THEN [absolute |-> FALSE, parts |-> <<>>]
    ELSE IF Head(chars) = "/"
    THEN [absolute |-> TRUE, parts |-> Path(Tail(chars)).parts]
    ELSE LET cut == IndexOf(chars, "/")
             name == IF cut = 0 THEN chars ELSE SubSeq(chars, 1, cut - 1)
             rest == IF cut = 0 THEN <<>>
                     ELSE Path(SubSeq(chars, cut + 1, Len(chars))).parts
         IN [absolute |-> FALSE,
             parts |-> IF name = <<".">> THEN rest ELSE <<name>> \o rest]

\* Path.resolve(): made absolute from the working directory, ".." taken out
\* (no symbolic links)
RECURSIVE resolve(_)
resolve(path) ==
    IF ~path.absolute
    THEN resolve([absolute |-> TRUE, parts |-> <<<<"w">>>> \o path.parts])
    ELSE IF \E i \in 1..Len(path.parts) : path.parts[i] = <<".", ".">>
    THEN LET i == CHOOSE k \in 1..Len(path.parts) :
                     /\ path.parts[k] = <<".", ".">>
                     /\ \A j \in 1..(k - 1) : path.parts[j] # <<".", ".">>
         IN resolve([absolute |-> TRUE,
                     parts |-> SubSeq(path.parts, 1, i - 2)
                               \o SubSeq(path.parts, i + 1,
                                         Len(path.parts))])
    ELSE path.parts

\* Path.as_uri(): ValueError for a relative path
as_uri(path) ==
    LET RECURSIVE PathText(_)
        PathText(parts) ==
            IF parts = <<>> THEN <<>>
            ELSE <<"/">> \o Head(parts) \o PathText(Tail(parts))
    IN IF path.absolute
       THEN Returned(Str.file_scheme
                     \o quote(IF path.parts = <<>> THEN <<"/">>
                              ELSE PathText(path.parts)))
       ELSE Raised("ValueError")

\* get_diagnostics(file_path) on the cache: the entries are tried in the
\* order of the dict; a key that is no text has no replace()
get_diagnostics(cache, file_path) ==
    LET RECURSIVE CacheScan(_, _)
        CacheScan(uri, i) ==
            IF i > Len(cache) THEN Returned(<<>>)
            ELSE IF cache[i].uri = JStr(uri) THEN Returned(cache[i].records)
            ELSE IF cache[i].uri.t # "str" THEN Raised("AttributeError")
            ELSE IF resolve(Path(unquote(replace(cache[i].uri.v,
                                                 Str.file_scheme, <<>>))))
                    = resolve(Path(unquote(replace(uri, Str.file_scheme,
                                                   <<>>))))
            THEN Returned(cache[i].records)
            ELSE CacheScan(uri, i + 1)
    IN IF as_uri(Path(file_path)).kind = "raised"
       THEN as_uri(Path(file_path))
       ELSE CacheScan(as_uri(Path(file_path)).value, 1)

\* to_dict() that leaves the line as the wire numbers it
to_dict_zero_based(d) ==
    Returned([line |-> d.range.start.line.v,
              character |-> d.range.start.character,
              severity |-> "Error", message |-> d.message, code |-> d.code,
              source |-> d.source])

\* Diagnostic.to_dict(): the 1-based line and the label of the severity;
\* TypeError when the line is no number
to_dict(d) ==
    LET severity_map == (1 :> "Error") @@ (2 :> "Warning") @@ (3 :> "Info")
                        @@ (4 :> "Hint")
    IN IF d.range.start.line.t # "int" THEN Raised("TypeError")
       ELSE Returned(
              [line |-> d.range.start.line.v + 1,
               character |-> d.range.start.character,
               severity |-> IF /\ d.severity.t = "int"
                               /\ d.severity.v \in DOMAIN severity_map
                            THEN severity_map[d.severity.v]
                            ELSE "Unknown",
               message |-> d.message, code |-> d.code,
               source |-> d.source])

ClInit ==
    /\ request_id = 0
    /\ pending_requests = [k \in {} |-> PendingFuture]
    /\ diagnostics_cache = <<>>
    /\ read_task = [status |-> "none", at |-> "readline",
                    headers |-> NoHeaders, content_length |-> 0]
    /\ rbuf = <<>>
    /\ eof = FALSE
    /\ conn_lost = FALSE
    /\ sent = <<>>
    /\ handled = <<>>
    /\ pc = [t \in Tasks |-> "idle"]
    /\ my_id = [t \in Tasks |-> 0]
    /\ wake = [t \in Tasks |-> "none"]
    /\ elapsed = [t \in Tasks |-> 0]
    /\ outcome = [k \in {} |-> Open]
    /\ notified = 0
    /\ frames = <<>>
    /\ in_flight = <<>>

(***************************************************************************)
(* Callers: LSPClient._request and LSPClient._notify                       *)
(***************************************************************************)
\* A faulty variant: the counter is read but not advanced.
next_request_id_not_advanced(current) == IF current = 0 THEN 1 ELSE current

\* self.request_id += 1
next_request_id(current) == current + 1

\* _request up to its first suspension: the id, the pending slot, the write and
\* drain().  The write stays under the transport's high-water mark, so drain()
\* returns at once, or raises ConnectionResetError when the pipe is gone:
\* _send_message is called before the try block, so the error leaves _request
\* with the slot still registered, and ends the calling task.
RequestSend(t, call) ==
    /\ pc[t] = "idle"
    /\ read_task.status # "none"
    /\ request_id < MaxRequests
    /\ LET id == next_request_id(request_id)
           message == RequestMessage(id, call.method, call.params)
       IN /\ request_id' = id
          /\ my_id' = [my_id EXCEPT ![t] = id]
          /\ pending_requests' =
                [k \in DOMAIN pending_requests \cup {id} |->
                    IF k = id THEN PendingFuture ELSE pending_requests[k]]
          /\ outcome' = [k \in DOMAIN outcome \cup {id} |->
                            IF k # id THEN outcome[k]
                            ELSE IF conn_lost
                            THEN Raised("ConnectionResetError")
                            ELSE Open]
          /\ sent' = Append(sent, message)
    /\ pc' = [pc EXCEPT ![t] = IF conn_lost THEN "failed" ELSE "req_wait"]
    /\ elapsed' = [elapsed EXCEPT ![t] = 0]
    /\ wake' = [wake EXCEPT ![t] = "none"]
    /\ UNCHANGED <<diagnostics_cache, read_task, rbuf, eof, conn_lost,
                   handled, notified, frames>>
    /\ UNCHANGED <<wf_vars, tool_vars, st_vars, in_flight>>

\* _notify: the write and drain(), as in _request
NotifySend(t, call) ==
    /\ pc[t] = "idle"
    /\ read_task.status # "none"
    /\ notified < MaxNotifies
    /\ LET message == NotifyMessage(call.method, call.params)
       IN sent' = Append(sent, message)
    /\ notified' = notified + 1
    /\ pc' = [pc EXCEPT ![t] = IF conn_lost THEN "failed" ELSE "idle"]
    /\ UNCHANGED <<request_id, pending_requests, diagnostics_cache, read_task,
                   rbuf, eof, conn_lost, handled, my_id, wake, elapsed,
                   outcome, frames>>
    /\ UNCHANGED <<wf_vars, tool_vars, st_vars, in_flight>>

Waiting(t) ==
    /\ pc[t] \in {"req_wait", "shutdown_wait"}
    /\ wake[t] = "none"
    /\ pending_requests[my_id[t]].st = "pending"

\* Time passes, up to the next deadline of a waiting request.
AdvanceTime ==
    /\ \E t \in Tasks : Waiting(t)
    /\ \A t \in Tasks : Waiting(t) => elapsed[t] < RequestTimeout
    /\ LET left == {RequestTimeout - elapsed[t] :
                       t \in {u \in Tasks : Waiting(u)}}
           d == CHOOSE x \in left : \A y \in left : x <= y
       IN elapsed' = [t \in Tasks |->
                        IF Waiting(t) THEN elapsed[t] + d ELSE elapsed[t]]
    /\ UNCHANGED <<request_id, pending_requests, diagnostics_cache, read_task,
                   rbuf, eof, conn_lost, sent, handled, pc, my_id,
                   wake, outcome, notified, frames>>
    /\ UNCHANGED <<wf_vars, tool_vars, st_vars, in_flight>>

\* The deadline of wait_for expires: the future is cancelled and the waiting
\* task is woken.
TimeoutFire(t) ==
    /\ Waiting(t)
    /\ elapsed[t] = RequestTimeout
    /\ pending_requests' =
          [pending_requests EXCEPT ![my_id[t]] = Future("cancelled", JNull)]
    /\ wake' = [wake EXCEPT ![t] = "timeout"]
    /\ UNCHANGED <<request_id, diagnostics_cache, read_task, rbuf, eof,
                   conn_lost, sent, handled, pc, my_id, elapsed,
                   outcome, notified, frames>>
    /\ UNCHANGED <<wf_vars, tool_vars, st_vars, in_flight>>

\* A faulty variant: the TimeoutError is not caught.
timeout_result_raises == Raised("TimeoutError")

\* except asyncio.TimeoutError: return None
timeout_result == Returned(None)

\* return response.get("result")
response_result(response) == Returned(ObjGetOr(response, Str.result, None))

\* The waiting task resumes: with the response, or with the TimeoutError;
\* finally: self.pending_requests.pop(request_id, None)
RequestReturn(t) ==
    /\ pc[t] = "req_wait"
    /\ \/ wake[t] = "timeout"
       \/ pending_requests[my_id[t]].st = "done"
    /\ outcome' = [outcome EXCEPT ![my_id[t]] =
                      IF pending_requests[my_id[t]].st = "done"
                      THEN response_result(pending_requests[my_id[t]].msg)
                      ELSE timeout_result]
    /\ pending_requests' =
          [k \in DOMAIN pending_requests \ {my_id[t]} |-> pending_requests[k]]
    /\ pc' = [pc EXCEPT ![t] = "idle"]
    /\ wake' = [wake EXCEPT ![t] = "none"]
    /\ UNCHANGED <<request_id, diagnostics_cache, read_task, rbuf, eof,
                   conn_lost, sent, handled, my_id, elapsed,
                   notified, frames>>
    /\ UNCHANGED <<wf_vars, tool_vars, st_vars, in_flight>>

\* The task waiting in wait_for is cancelled: CancelledError is raised there,
\* the finally clause pops the slot, and the error ends the task.
CancelTask(t) ==
    /\ pc[t] = "req_wait"
    /\ pc' = [pc EXCEPT ![t] = "cancelled"]
    /\ wake' = [wake EXCEPT ![t] = "none"]
    /\ outcome' = [outcome EXCEPT ![my_id[t]] = Raised("CancelledError")]
    /\ pending_requests' =
          [k \in DOMAIN pending_requests \ {my_id[t]} |-> pending_requests[k]]
    /\ UNCHANGED <<request_id, diagnostics_cache, read_task, rbuf, eof,
                   conn_lost, sent, handled, my_id, elapsed,
                   notified, frames>>
    /\ UNCHANGED <<wf_vars, tool_vars, st_vars, in_flight>>

\* A faulty variant: the reader task is left running.
cancel_not_requested(task) == task

\* self._read_task.cancel(): a task that has not ended is cancelled; it is
\* suspended in readline() or read(), and CancelledError is raised there
\* when it is next resumed, whether bytes have arrived or not
cancel(task) ==
    IF task.status = "running" THEN [task EXCEPT !.status = "cancelled"]
    ELSE task

\* LSPClient.shutdown up to its first suspension (lines 187-190): the
\* reader task is cancelled, then _request("shutdown", {}) takes its id,
\* registers its slot and writes; the write raises when the pipe is gone,
\* which ends shutdown.  shutdown is called once in a session, by
\* stop_server, on a client whose initialize was called (start_server,
\* lines 41-45).
ShutdownCall(t) ==
    /\ pc[t] = "idle"
    /\ read_task.status # "none"
    /\ \A i \in 1..Len(sent) :
          ObjGetOr(sent[i], Str.method, JNull) # JStr(Str.shutdown)
    /\ request_id < MaxRequests
    /\ read_task' = cancel(read_task)
    /\ LET id == next_request_id(request_id)
       IN /\ request_id' = id
          /\ my_id' = [my_id EXCEPT ![t] = id]
          /\ pending_requests' =
                [k \in DOMAIN pending_requests \cup {id} |->
                    IF k = id THEN PendingFuture ELSE pending_requests[k]]
          /\ outcome' = [k \in DOMAIN outcome \cup {id} |->
                            IF k # id THEN outcome[k]
                            ELSE IF conn_lost
                            THEN Raised("ConnectionResetError")
                            ELSE Open]
          /\ sent' = Append(sent, RequestMessage(id, Str.shutdown, EmptyObj))
    /\ pc' = [pc EXCEPT ![t] = IF conn_lost THEN "failed"
                                ELSE "shutdown_wait"]
    /\ elapsed' = [elapsed EXCEPT ![t] = 0]
    /\ wake' = [wake EXCEPT ![t] = "none"]
    /\ UNCHANGED <<diagnostics_cache, rbuf, eof, conn_lost, handled,
                   notified, frames>>
    /\ UNCHANGED <<wf_vars, tool_vars, st_vars, in_flight>>

\* The task in shutdown resumes from its request (lines 107-113), with the
\* response or with the TimeoutError, and _notify("exit", {}) writes (line
\* 191); the write raises when the pipe is gone
ShutdownReturn(t) ==
    /\ pc[t] = "shutdown_wait"
    /\ \/ wake[t] = "timeout"
       \/ pending_requests[my_id[t]].st = "done"
    /\ outcome' = [outcome EXCEPT ![my_id[t]] =
                      IF pending_requests[my_id[t]].st = "done"
                      THEN response_result(pending_requests[my_id[t]].msg)
                      ELSE timeout_result]
    /\ pending_requests' =
          [k \in DOMAIN pending_requests \ {my_id[t]} |-> pending_requests[k]]
    /\ sent' = Append(sent, NotifyMessage(Str.exit, EmptyObj))
    /\ notified' = notified + 1
    /\ pc' = [pc EXCEPT ![t] = IF conn_lost THEN "failed" ELSE "closed"]
    /\ wake' = [wake EXCEPT ![t] = "none"]
    /\ UNCHANGED <<request_id, diagnostics_cache, read_task, rbuf, eof,
                   conn_lost, handled, my_id, elapsed, frames>>
    /\ UNCHANGED <<wf_vars, tool_vars, st_vars, in_flight>>

(***************************************************************************)
(* The reader task and the server                                          *)
(***************************************************************************)
\* LSPClient.initialize, line 26: asyncio.create_task(self._read_messages())
StartReadTask ==
    /\ read_task.status = "none"
    /\ read_task' = [read_task EXCEPT !.status = "running"]
    /\ UNCHANGED <<request_id, pending_requests, diagnostics_cache, rbuf, eof,
                   conn_lost, sent, handled, pc, my_id, wake, elapsed,
                   outcome, notified, frames>>
    /\ UNCHANGED <<wf_vars, tool_vars, st_vars, in_flight>>

Session ==
    [status |-> read_task.status, at |-> read_task.at,
     headers |-> read_task.headers,
     content_length |-> read_task.content_length,
     rbuf |-> rbuf, eof |-> eof, pending |-> pending_requests,
     cache |-> diagnostics_cache, handled |-> handled, raised |-> FALSE]

\* The reader task runs until it has to wait for bytes, or ends.
ReaderRun ==
    /\ read_task.status = "running"
    /\ ~ReaderBlocked(Session)
    /\ LET s == read_messages(Session)
       IN /\ read_task' = [status |-> s.status, at |-> s.at,
                           headers |-> s.headers,
                           content_length |-> s.content_length]
          /\ rbuf' = s.rbuf
          /\ pending_requests' = s.pending
          /\ diagnostics_cache' = s.cache
          /\ handled' = s.handled
    /\ UNCHANGED <<request_id, eof, conn_lost, sent, pc, my_id, wake,
                   elapsed, outcome, notified, frames>>
    /\ UNCHANGED <<wf_vars, tool_vars, st_vars, in_flight>>

\* Frames of the server: headers, a blank line, a payload
ServerFrame(header_lines, payload) == header_lines \o <<CR, LF>> \o payload

\* What a server may put on the stream: a kind of frame and its message.
\* "bad_entry" is a well-formed frame whose diagnostics entry has no range.
Frame(kind, message) == [msg |-> message, kind |-> kind]

MalformedKinds ==
    {"no_length", "no_length_no_payload", "bad_length", "negative_length",
     "undecodable", "invalid_json", "bad_entry"}

\* The frames of a session with a conforming server: responses, and requests
\* of the server's own
SessionFrames ==
    {Frame("well_formed", m) :
        m \in {Response(k, InitializeResult) : k \in RequestIds}
              \cup ServerRequests}

\* The frames of a server that may also send a malformed frame
ReaderFrames ==
    {Frame("well_formed", m) :
        m \in {Response(1, InitializeResult),
               PublishDiagnostics(Str.uri_A, <<WireDiagnostic(0, 1)>>)}}
    \cup {Frame(k, PublishDiagnostics(Str.uri_A, <<>>)) :
             k \in MalformedKinds \ {"bad_entry"}}
    \cup {Frame("bad_entry", m) : m \in BadNotifications}

WireBytes ==
    LET FrameBytes(f0) ==
            LET payload == Utf8Encode(JsonDumps(f0.msg))
                length == HeaderLine(Str.ContentLength, IntToChars(Len(payload)))
                other == HeaderLine(Str.ContentType, Str.unused)
            IN CASE f0.kind \in {"well_formed", "bad_entry"} ->
                        ServerFrame(length, payload)
                 [] f0.kind = "no_length" -> ServerFrame(other, payload)
                 [] f0.kind = "no_length_no_payload" -> ServerFrame(other, <<>>)
                 [] f0.kind = "bad_length" ->
                        ServerFrame(HeaderLine(Str.ContentLength, <<"x">>), payload)
                 [] f0.kind = "negative_length" ->
                        ServerFrame(HeaderLine(Str.ContentLength, <<"-", "1">>),
                                    payload)
                 [] f0.kind = "undecodable" ->
                        ServerFrame(HeaderLine(Str.ContentLength, <<"1">>),
                                    <<"0xFF">>)
                 [] f0.kind = "invalid_json" ->
                        ServerFrame(HeaderLine(Str.ContentLength, <<"1">>), <<"{">>)
    IN  [f \in SessionFrames \cup ReaderFrames
                \cup {Frame("well_formed", m) : m \in CacheNotifications} |->
            FrameBytes(f)]

\* The server writes one frame.
ServerSend(f) ==
    /\ ~eof
    /\ Len(frames) < MaxFrames
    /\ rbuf' = rbuf \o WireBytes[f]
    /\ frames' = Append(frames, f)
    /\ UNCHANGED <<request_id, pending_requests, diagnostics_cache, read_task,
                   eof, conn_lost, sent, handled, pc, my_id, wake, elapsed,
                   outcome, notified>>
    /\ UNCHANGED <<wf_vars, tool_vars, st_vars, in_flight>>

\* The server writes one frame and the pipe hands it to the reader in two
\* pieces: the headers with the first k bytes of the payload now, the rest
\* later (a pipe delivers what it has; a payload larger than the pipe's
\* buffer always arrives in pieces).
ServerSendInChunks(f, k) ==
    LET bytes == WireBytes[f]
        payload == Utf8Encode(JsonDumps(f.msg))
        first == Len(bytes) - Len(payload) + k
    IN  /\ ~eof
        /\ in_flight = <<>>
        /\ Len(frames) < MaxFrames
        /\ k \in 0..Len(payload)
        /\ rbuf' = rbuf \o SubSeq(bytes, 1, first)
        /\ in_flight' = SubSeq(bytes, first + 1, Len(bytes))
        /\ frames' = Append(frames, f)
        /\ UNCHANGED <<request_id, pending_requests, diagnostics_cache,
                       read_task, eof, conn_lost, sent, handled, pc, my_id,
                       wake, elapsed, outcome, notified>>
        /\ UNCHANGED <<wf_vars, tool_vars, st_vars>>

\* The rest of the frame arrives
Deliver ==
    /\ in_flight # <<>>
    /\ rbuf' = rbuf \o in_flight
    /\ in_flight' = <<>>
    /\ UNCHANGED <<request_id, pending_requests, diagnostics_cache, read_task,
                   eof, conn_lost, sent, handled, pc, my_id, wake, elapsed,
                   outcome, notified, frames>>
    /\ UNCHANGED <<wf_vars, tool_vars, st_vars>>

\* The server process exits: its output reaches EOF, its input is gone.
ServerExit ==
    /\ ~eof
    /\ eof' = TRUE
    /\ conn_lost' = TRUE
    /\ UNCHANGED <<request_id, pending_requests, diagnostics_cache, read_task,
                   rbuf, sent, handled, pc, my_id, wake, elapsed, outcome,
                   notified, frames>>
    /\ UNCHANGED <<wf_vars, tool_vars, st_vars, in_flight>>

\* LSPClient._send_message with the peer echoing what it reads: the bytes
\* written are the bytes the reader is given.
SendLoopback(message) ==
    /\ Len(sent) < MaxFrames
    /\ sent' = Append(sent, message)
    /\ rbuf' = rbuf \o send_message(message)
    /\ UNCHANGED <<request_id, pending_requests, diagnostics_cache, read_task,
                   eof, conn_lost, handled, pc, my_id, wake, elapsed,
                   outcome, notified, frames>>
    /\ UNCHANGED <<wf_vars, tool_vars, st_vars, in_flight>>

\* CodeDiagnosticTool.diagnose reads the diagnostics of a file:
\* client.get_diagnostics(path), then to_dict() of each record.
GetDiagnostics(file_path) ==
    /\ lookup' =
          LET found == get_diagnostics(diagnostics_cache, file_path)
          IN [path |-> file_path, result |-> found,
              dicts |-> IF found.kind = "returned"
                        THEN [i \in 1..Len(found.value) |->
                                 to_dict(found.value[i])]
                        ELSE <<>>,
              seen |-> Len(handled)]
    /\ UNCHANGED <<wf_vars, cl_vars, st_vars, tool, manager, procs, dirs,
                    callers>>

InitializeCall == [method |-> Str.initialize, params |-> InitParams]

\* A session: two tasks that call _request and _notify, a conforming server
ClNext ==
    \/ StartReadTask
    \/ \E t \in Tasks : RequestSend(t, InitializeCall)
    \/ \E t \in Tasks :
          NotifySend(t, [method |-> Str.initialized, params |-> EmptyObj])
    \/ AdvanceTime
    \/ \E t \in Tasks : TimeoutFire(t)
    \/ \E t \in Tasks : RequestReturn(t)
    \/ \E t \in Tasks : CancelTask(t)
    \/ ReaderRun
    \/ \E f \in SessionFrames :
          /\ ObjGet(f.msg, Str.id).v <= request_id
          /\ ServerSend(f)
    \/ ServerExit

\* A session that is shut down: a task calls shutdown while the other may
\* have a request outstanding; the server answers any request, the
\* shutdown request too, and may exit
ShutdownNext ==
    \/ StartReadTask
    \/ \E t \in Tasks : RequestSend(t, InitializeCall)
    \/ \E t \in Tasks : ShutdownCall(t)
    \/ AdvanceTime
    \/ \E t \in Tasks : TimeoutFire(t)
    \/ \E t \in Tasks : RequestReturn(t)
    \/ \E t \in Tasks : ShutdownReturn(t)
    \/ ReaderRun
    \/ \E k \in RequestIds :
          /\ k <= request_id
          /\ ServerSend(Frame("well_formed", Response(k, InitializeResult)))
    \/ ServerExit

\* The reader loop against a server that may send malformed frames
ReaderNext ==
    \/ StartReadTask
    \/ RequestSend("t1", InitializeCall)
    \/ ReaderRun
    \/ \E f \in ReaderFrames : ServerSend(f)
    \/ ServerExit

\* The diagnostics cache: a server that publishes, and lookups
CacheNext ==
    \/ StartReadTask
    \/ \E m \in CacheNotifications : ServerSend(Frame("well_formed", m))
    \/ ReaderRun
    \/ \E p \in {Files.ab, Files.B, Files.unrecorded, Files.relative} :
          GetDiagnostics(p)

\* The reader loop against a conforming server whose frames arrive whole,
\* or with the payload cut after none, one, some or all but one of its bytes
ChunkNext ==
    \/ StartReadTask
    \/ ReaderRun
    \/ \E m \in {Response(1, InitializeResult),
                  PublishDiagnostics(Str.uri_A, <<WireDiagnostic(0, 1)>>)} :
          \E back \in {0, 1, 10} :
              ServerSendInChunks(
                  Frame("well_formed", m),
                  Len(Utf8Encode(JsonDumps(m))) - back)
    \/ \E m \in {Response(1, InitializeResult),
                  PublishDiagnostics(Str.uri_A, <<WireDiagnostic(0, 1)>>)} :
          \E k \in {0, 1} : ServerSendInChunks(Frame("well_formed", m), k)
    \/ Deliver

\* The framing of _send_message against the parser of the reader loop
FramingNext ==
    \/ StartReadTask
    \/ \E m \in ClientMessages : SendLoopback(m)
    \/ ReaderRun

(***************************************************************************)
(* CodeDiagnosticTool and ServerManager                                    *)
(* A call runs without suspending up to its next await; each action below  *)
(* is one such stretch of a caller. The language asked for is java; jdtls  *)
(* is installed or not, the same for all calls. A process carries the log  *)
(* of what was done on the client that talks to it: "initialize" and       *)
(* "initialized" (sent), "open_document" and "close_document" (called),    *)
(* "shutdown" (called: the reader loop is cancelled).                      *)
(***************************************************************************)
StopTimeout == 5

Callers == {"c1", "c2"}

ToolInit ==
    /\ lookup = [path |-> <<>>, result |-> Open, dicts |-> <<>>, seen |-> 0]
    /\ tool = [is_server_running |-> FALSE, workspace_path |-> "none",
               client |-> 0]
    /\ manager = [process |-> 0, data_dir |-> 0]
    /\ procs = <<>>
    /\ dirs = <<>>
    /\ callers =
          [t \in Callers |->
              [ctx |-> "none", pc |-> "done", status |-> "idle",
               ws |-> "none", new |-> 0, waited |-> 0, made |-> 0,
               exc |-> "none", swallowed |-> "none",
               entry |-> [running |-> FALSE, ws |-> "none", client |-> 0,
                          procs |-> 0, dirs |-> 0],
               file |-> 0, docs |-> <<>>, results |-> <<>>]]

\* the objects a stretch of code works on
World == [tool |-> tool, manager |-> manager, procs |-> procs, dirs |-> dirs]

\* start_server, line 30: already running on this workspace
never_running(tl, ws) == FALSE
already_running(tl, ws) == tl.is_server_running /\ tl.workspace_path = ws

\* start_server, line 32: a running server is stopped first
never_stops_first(tl) == FALSE
stops_first(tl) == tl.is_server_running

\* stop, line 53: the wait for the exit has lasted its timeout
expired_at_once(waited) == TRUE
wait_expired(waited) == waited >= StopTimeout

\* start_server lines 34-37 and start_java_server up to its await: the
\* workspace is recorded, the scratch directory is made and the process is
\* launched (self.process is assigned when the await is over); restart tells
\* whether a server was running when start_server was called
start_java_server(w, ws, restart, ignores) ==
    [w EXCEPT
        !.tool.workspace_path = ws,
        !.manager.data_dir = Len(w.dirs) + 1,
        !.dirs = Append(w.dirs, [exists |-> TRUE, attempted |-> FALSE]),
        !.procs = Append(w.procs,
            [alive |-> TRUE, ignores |-> ignores, term |-> FALSE,
             kill |-> FALSE, waited |-> 0, ws |-> ws, restart |-> restart,
             stop |-> "none", log |-> <<>>])]

\* start_server line 34 and start_java_server lines 23-32: the workspace is
\* recorded, the scratch directory is made, and jdtls is not found
jdtls_not_found(w, ws) ==
    [w EXCEPT
        !.tool.workspace_path = ws,
        !.manager.data_dir = Len(w.dirs) + 1,
        !.dirs = Append(w.dirs, [exists |-> TRUE, attempted |-> FALSE])]

\* ServerManager.stop lines 58-63 and stop_server lines 60-62: the scratch
\* directory is deleted if it exists (a failure is swallowed), stop()
\* returns, and the tool forgets its session
stop_finish(w, deleted) ==
    LET d == w.manager.data_dir
        p == w.manager.process
    IN [w EXCEPT
           !.dirs = IF d # 0 /\ w.dirs[d].exists
                    THEN [w.dirs EXCEPT ![d] = [exists |-> ~deleted,
                                                attempted |-> TRUE]]
                    ELSE w.dirs,
           !.procs = IF p # 0
                     THEN [w.procs EXCEPT ![p].stop = "returned"]
                     ELSE w.procs,
           !.tool = [is_server_running |-> FALSE, workspace_path |-> "none",
                     client |-> 0]]

\* the caller's call ends
Done(c, status) == [c EXCEPT !.pc = "done", !.status = status]

\* a stretch of caller t ends with the world w and the caller as c
Becomes(t, w, c) ==
    /\ tool' = w.tool
    /\ manager' = w.manager
    /\ procs' = w.procs
    /\ dirs' = w.dirs
    /\ callers' = [callers EXCEPT ![t] = c]
    /\ UNCHANGED <<wf_vars, cl_vars, st_vars, lookup>>

\* the events are added to the log of the client that talks to process p
Logged(w, p, events) ==
    IF p = 0 THEN w ELSE [w EXCEPT !.procs[p].log = @ \o events]

\* stop_server is entered (lines 47-54) in the world w: nothing to do when
\* not running, else client.shutdown() cancels the reader loop and is
\* awaited
StopServerEntry(t, w, c) ==
    IF ~w.tool.is_server_running
    THEN Becomes(t, w,
                 Done(c, IF c.exc = "none" THEN "returned" ELSE "raised"))
    ELSE Becomes(t, Logged(w, w.tool.client, <<"shutdown">>),
                 [c EXCEPT !.pc = "shutting_down"])

\* an error leaves start_server before line 45 marks the server running:
\* it ends the call; when diagnose made the call, its finally clause calls
\* stop_server first (lines 148-149), which returns at once unless another
\* call has marked the tool running meanwhile
StartRaises(t, w, c, error) ==
    IF c.ctx = "start"
    THEN Becomes(t, w, Done([c EXCEPT !.exc = error], "raised"))
    ELSE StopServerEntry(t, w, [c EXCEPT !.exc = error,
                                         !.ctx = "diag_finally"])

\* start_server lines 36-37 for caller c in the world w: the server is
\* launched, or FileNotFoundError is raised (jdtls is found by every call
\* or by none)
Launch(t, w, c) ==
    \/ /\ Len(procs) < MaxProcs
       /\ Len(dirs) = Len(procs)
       /\ \E ignores \in BOOLEAN :
             Becomes(t, start_java_server(w, c.ws, c.entry.running, ignores),
                     [c EXCEPT !.pc = "spawning", !.new = Len(procs) + 1])
    \/ /\ procs = <<>>
       /\ StartRaises(t, jdtls_not_found(w, c.ws), c, "FileNotFoundError")

\* start_server(ws) is called, on its own or by diagnose (lines 27-38, 107)
CallStartServer(t, ws, ctx) ==
    /\ callers[t].pc = "done"
    /\ callers["c1"].made + callers["c2"].made < MaxCalls
    /\ LET c == [callers[t] EXCEPT
                    !.ctx = ctx, !.ws = ws, !.status = "active",
                    !.made = @ + 1, !.new = 0, !.waited = 0,
                    !.exc = "none", !.swallowed = "none",
                    !.entry = [running |-> tool.is_server_running,
                               ws |-> tool.workspace_path,
                               client |-> tool.client,
                               procs |-> Len(procs), dirs |-> Len(dirs)]]
       IN IF already_running(tool, ws)
          THEN Becomes(t, World,
                       IF ctx = "start" THEN Done(c, "returned")
                       ELSE [c EXCEPT !.ctx = "diag_body",
                                      !.pc = "diagnosing"])
          ELSE IF stops_first(tool)
          THEN StopServerEntry(t, World, c)
          ELSE Launch(t, World, c)

\* create_subprocess_exec is over: self.process, the client, and initialize
\* is awaited (server_manager.py 38-46, start_server 41-42)
SpawnDone(t) ==
    /\ callers[t].pc = "spawning"
    /\ Becomes(t, [World EXCEPT !.manager.process = callers[t].new,
                                !.tool.client = callers[t].new],
               [callers[t] EXCEPT !.pc = "initializing"])

\* initialize and the sleep are over (start_server 42-45, lsp_client.py
\* 24-44): the server answered and the initialized notification was sent;
\* or no answer came within the timeout, _request gave None and initialize
\* returned False, which start_server does not look at; or the process was
\* gone and the write raised
InitializeDone(t) ==
    /\ callers[t].pc = "initializing"
    /\ LET p == callers[t].new
           after == IF callers[t].ctx = "start"
                    THEN Done(callers[t], "returned")
                    ELSE [callers[t] EXCEPT !.ctx = "diag_body",
                                            !.pc = "diagnosing"]
       IN \/ /\ procs[p].alive
             /\ Becomes(t, [Logged(World, p, <<"initialize", "initialized">>)
                               EXCEPT !.tool.is_server_running = TRUE],
                        after)
          \/ Becomes(t, [Logged(World, p, <<"initialize">>)
                            EXCEPT !.tool.is_server_running = TRUE],
                     after)
          \/ /\ ~procs[p].alive
             /\ StartRaises(t, World, callers[t], "ConnectionResetError")

\* The task that runs start_server is cancelled while it awaits
\* client.initialize or the sleep (lines 42-43): CancelledError leaves
\* start_server as any error does, with the process launched and line 45
\* not reached
CancelStart(t) ==
    /\ callers[t].pc = "initializing"
    /\ StartRaises(t, World, callers[t], "CancelledError")

CallStopServer(t) ==
    /\ callers[t].pc = "done"
    /\ callers["c1"].made + callers["c2"].made < MaxCalls
    /\ StopServerEntry(t, World,
                       [callers[t] EXCEPT
                           !.ctx = "stop", !.ws = "none",
                           !.status = "active", !.made = @ + 1,
                           !.new = 0, !.waited = 0, !.exc = "none",
                           !.swallowed = "none"])

\* the body of diagnose ends and its finally clause calls stop_server
\* (lines 109-149): no file of the list exists and nothing is sent; or a
\* file is opened and closed; or the process is gone and the write of
\* open_document raises; or the client is gone (AttributeError)
DiagnoseBody(t) ==
    /\ callers[t].pc = "diagnosing"
    /\ LET p == tool.client
           c == [callers[t] EXCEPT !.ctx = "diag_finally"]
       IN IF p = 0
          THEN StopServerEntry(t, World, [c EXCEPT !.exc = "AttributeError"])
          ELSE \/ StopServerEntry(t, World, c)
               \/ /\ procs[p].alive
                  /\ StopServerEntry(
                         t, Logged(World, p, <<"open_document",
                                               "close_document">>), c)
               \/ /\ ~procs[p].alive
                  /\ StopServerEntry(
                         t, Logged(World, p, <<"open_document">>),
                         [c EXCEPT !.exc = "ConnectionResetError"])

\* The list diagnose is given when its files are followed one by one: two
\* files that exist and, between them, one that does not
file_paths == <<"A.java", "Missing.java", "B.java">>

\* os.path.exists(abs_file_path)
exists(file_path) == file_path # "Missing.java"

\* The loop of diagnose (lines 111-144) from the file after c.file up to
\* its next suspension, in the world w: a file that does not exist gets an
\* empty result; the next file that exists is opened, and the loop sleeps
\* before it polls (then = "poll"); or the list is exhausted, or
\* open_document raises, and the finally clause is entered (then =
\* "finally").  c.docs records the didOpen and didClose notifications
\* written to a live server.
open_next(w, c) ==
    LET n == Len(file_paths)
        later == {j \in (c.file + 1)..n : exists(file_paths[j])}
        j == IF later = {} THEN n + 1
             ELSE CHOOSE x \in later : \A y \in later : x <= y
        c1 == [c EXCEPT
                  !.results = @ \o [k \in 1..(j - 1 - c.file) |->
                                       [file |-> file_paths[c.file + k],
                                        value |-> "empty"]]]
        p == w.tool.client
    IN  IF j > n
        THEN [w |-> w, c |-> [c1 EXCEPT !.ctx = "diag_finally"],
              then |-> "finally"]
        ELSE IF p = 0
        THEN [w |-> w,
              c |-> [c1 EXCEPT !.ctx = "diag_finally", !.file = j,
                               !.exc = "AttributeError"],
              then |-> "finally"]
        ELSE IF ~w.procs[p].alive
        THEN [w |-> Logged(w, p, <<"open_document">>),
              c |-> [c1 EXCEPT !.ctx = "diag_finally", !.file = j,
                               !.exc = "ConnectionResetError"],
              then |-> "finally"]
        ELSE [w |-> Logged(w, p, <<"open_document">>),
              c |-> [c1 EXCEPT !.pc = "polling", !.file = j,
                               !.docs = Append(@, [op |-> "open",
                                                   file |-> file_paths[j]])],
              then |-> "poll"]

\* a stretch of the loop of diagnose is over for caller t
LoopGoesOn(t, r) ==
    IF r.then = "finally" THEN StopServerEntry(t, r.w, r.c)
    ELSE Becomes(t, r.w, r.c)

\* start_server has returned to diagnose (line 107): the loop begins
OpenFirst(t) ==
    /\ callers[t].pc = "diagnosing"
    /\ LoopGoesOn(t, open_next(World, callers[t]))

\* The polling of a file is over (lines 134-144): its diagnostics are read,
\* close_document writes didClose, and the loop goes on with the next
\* file; or the process is gone and the write raises
PollDone(t) ==
    /\ callers[t].pc = "polling"
    /\ LET p == tool.client
           c == callers[t]
           f == file_paths[c.file]
       IN IF procs[p].alive
          THEN LoopGoesOn(t,
                  open_next(Logged(World, p, <<"close_document">>),
                            [c EXCEPT
                                !.results = Append(@, [file |-> f,
                                                       value |-> "read"]),
                                !.docs = Append(@, [op |-> "close",
                                                    file |-> f])]))
          ELSE StopServerEntry(
                  t, Logged(World, p, <<"close_document">>),
                  [c EXCEPT !.ctx = "diag_finally",
                            !.results = Append(@, [file |-> f,
                                                   value |-> "read"]),
                            !.exc = "ConnectionResetError"])

\* The task that runs diagnose is cancelled while it sleeps between two
\* polls (line 136): CancelledError enters the finally clause
CancelPoll(t) ==
    /\ callers[t].pc = "polling"
    /\ StopServerEntry(t, World, [callers[t] EXCEPT
                                     !.ctx = "diag_finally",
                                     !.exc = "CancelledError"])

\* stop() and the rest of stop_server are over for caller c: the call ends,
\* or start_server goes on to start the new server
StopOver(t, w, c) ==
    IF c.ctx \in {"start", "diag_start"}
    THEN Launch(t, w, c)
    ELSE Becomes(t, w, Done(c, IF c.exc = "none" THEN "returned"
                               ELSE "raised"))

\* an error leaves stop_server: it ends the call, but for a start_server
\* that diagnose called, whose finally clause then calls stop_server
StopRaises(t, w, c, error) ==
    IF c.ctx = "diag_start"
    THEN StopServerEntry(t, w, [c EXCEPT !.ctx = "diag_finally",
                                         !.exc = error])
    ELSE Becomes(t, w, Done([c EXCEPT !.exc = error], "raised"))

\* client.shutdown() is over (stop_server 52-58): with a live server its
\* request times out, since the reader loop is cancelled, and it returns;
\* with the process gone its write raises ConnectionResetError, which is
\* swallowed.  Then stop() begins (server_manager.py 50-53): terminate()
\* raises ProcessLookupError when the process is known to have exited
ShutdownDone(t) ==
    /\ callers[t].pc = "shutting_down"
    /\ LET p == manager.process
           c == [callers[t] EXCEPT
                    !.swallowed =
                        IF tool.client # 0 /\ ~procs[tool.client].alive
                        THEN "ConnectionResetError" ELSE "none"]
       IN IF p = 0
          THEN \E deleted \in BOOLEAN :
                  StopOver(t, stop_finish(World, deleted), c)
          ELSE IF ~procs[p].alive
          THEN StopRaises(t, [World EXCEPT !.procs[p].stop = "raised"],
                          c, "ProcessLookupError")
          ELSE Becomes(t, [World EXCEPT !.procs[p].term = TRUE,
                                        !.procs[p].stop = "running"],
                       [c EXCEPT !.pc = "stop_wait", !.waited = 0])

\* the time of the timeout passes for a caller that waits for the exit
\* (wait_for, line 53)
StopWaitTick(t) ==
    /\ callers[t].pc = "stop_wait"
    /\ callers[t].waited < StopTimeout
    /\ Becomes(t, World, [callers[t] EXCEPT !.waited = StopTimeout])

\* the wait of line 53 is over: the process has exited, or the timeout has
\* expired and the process is killed (lines 54-56)
StopWaitDone(t) ==
    /\ callers[t].pc = "stop_wait"
    /\ LET p == manager.process
       IN IF ~procs[p].alive
          THEN \E deleted \in BOOLEAN :
                  StopOver(t, stop_finish([World EXCEPT !.procs[p].waited =
                                              callers[t].waited], deleted),
                           callers[t])
          ELSE /\ wait_expired(callers[t].waited)
               /\ Becomes(t, [World EXCEPT !.procs[p].kill = TRUE,
                                           !.procs[p].waited =
                                              callers[t].waited],
                          [callers[t] EXCEPT !.pc = "kill_wait"])

\* the wait of line 56 is over: the killed process has exited
KillWaitDone(t) ==
    /\ callers[t].pc = "kill_wait"
    /\ ~procs[manager.process].alive
    /\ \E deleted \in BOOLEAN :
          StopOver(t, stop_finish(World, deleted), callers[t])

\* A server process exits: killed, terminated (unless it ignores that), or
\* on its own (a process that ignores the terminate request is one that
\* does not exit before it is killed)
ProcessExits(p) ==
    /\ procs[p].alive
    /\ procs[p].kill \/ ~procs[p].ignores
    /\ procs' = [procs EXCEPT ![p].alive = FALSE]
    /\ UNCHANGED <<tool, manager, dirs, callers, lookup, wf_vars, cl_vars,
                    st_vars>>

\* The tool used by the callers cs, whose calls interleave at their awaits
ToolNext(cs) ==
    \/ \E t \in cs, ws \in {"W1", "W2"} : CallStartServer(t, ws, "start")
    \/ \E t \in cs, ws \in {"W1", "W2"} :
          CallStartServer(t, ws, "diag_start")
    \/ \E t \in cs : CallStopServer(t)
    \/ \E t \in cs : SpawnDone(t)
    \/ \E t \in cs : InitializeDone(t)
    \/ \E t \in cs : CancelStart(t)
    \/ \E t \in cs : DiagnoseBody(t)
    \/ \E t \in cs : ShutdownDone(t)
    \/ \E t \in cs : StopWaitTick(t)
    \/ \E t \in cs : StopWaitDone(t)
    \/ \E t \in cs : KillWaitDone(t)
    \/ \E p \in 1..Len(procs) : ProcessExits(p)

\* One call of diagnose with the list file_paths, its loop followed file by
\* file
DiagnoseNext ==
    \/ /\ callers["c1"].made = 0
       /\ CallStartServer("c1", "W1", "diag_start")
    \/ SpawnDone("c1")
    \/ InitializeDone("c1")
    \/ CancelStart("c1")
    \/ OpenFirst("c1")
    \/ PollDone("c1")
    \/ CancelPoll("c1")
    \/ ShutdownDone("c1")
    \/ StopWaitTick("c1")
    \/ StopWaitDone("c1")
    \/ KillWaitDone("c1")
    \/ \E p \in 1..Len(procs) : ProcessExits(p)

\* A run whose diagnostics body works with the tool: _lsp_diagnostics lets
\* a new CodeAnalyzer call diagnose (core.py 139-147, analyzer.py 19-27):
\* the body returns when diagnose has returned and raises when it raised
ReviewNext ==
    \/ review_code
    \/ \E n \in Nodes : NodeStart(n)
    \/ \E n \in Nodes \ {"lsp_diagnostics"} : NodeFinish(n)
    \/ StepEnd
    \/ /\ node_status["lsp_diagnostics"] = "running"
       /\ callers["c1"].made = 0
       /\ CallStartServer("c1", "W1", "diag_start")
    \/ SpawnDone("c1")
    \/ InitializeDone("c1")
    \/ DiagnoseBody("c1")
    \/ ShutdownDone("c1")
    \/ StopWaitTick("c1")
    \/ StopWaitDone("c1")
    \/ KillWaitDone("c1")
    \/ \E p \in 1..Len(procs) : ProcessExits(p)
    \/ /\ callers["c1"].status = "returned"
       /\ NodeFinish("lsp_diagnostics")
    \/ /\ callers["c1"].status = "raised"
       /\ NodeRaise("lsp_diagnostics")

(***************************************************************************)
(* The review state outside a run: StateManager (src/agent/                *)
(* state_manager.py) and the routing condition applied to a given state.   *)
(* A field's value is a Python list of strings or a scalar; a state is a   *)
(* dict, a function from its keys to values.                               *)
(***************************************************************************)
\* Calls of the state manager that succeed (each appends to state_history)
MaxHistory == 3

PyList(items) == [items |-> items, is_list |-> TRUE]
PyValue(text) == [items |-> <<text>>, is_list |-> FALSE]

\* datetime.now().isoformat() at the n-th successful call
Now(n) == PyValue(<<"t1", "t2", "t3", "t4">>[n])

\* self.current_state = None
NoState == [k \in {} |-> PyValue("None")]

\* The fields CodeReviewState declares (src/agent/state.py)
DeclaredFields ==
    {"messages", "document", "is_document_read", "git_diff", "code_context",
     "is_code_retrieved", "diagnostics", "references", "is_lsp_diagnosed",
     "review_comments", "confidence_scores", "review_result", "session_id",
     "timestamp", "status", "errors", "warnings", "feedback_loop",
     "requires_user_input"}

\* StateManager.initialize_state: the dict it builds; uuid is what
\* uuid.uuid4() gives, now what the clock gives
initialize_state(initial_data, uuid, now) ==
    [k \in {"messages", "git_diff", "ticket_id", "business_context",
            "code_context", "fast_analysis", "precise_analysis",
            "semantic_analysis", "diagnostics", "references",
            "review_comments", "confidence_scores", "review_result",
            "session_id", "timestamp", "status", "workspace_id",
            "branch_name", "errors", "warnings", "feedback_loop",
            "requires_user_input"} |->
        CASE k = "messages" ->
                 IF k \in DOMAIN initial_data THEN initial_data[k]
                 ELSE PyList(<<>>)
          [] k = "git_diff" ->
                 IF k \in DOMAIN initial_data THEN initial_data[k]
                 ELSE PyValue("")
          [] k \in {"ticket_id", "workspace_id", "branch_name"} ->
                 IF k \in DOMAIN initial_data THEN initial_data[k]
                 ELSE PyValue("None")
          [] k = "session_id" ->
                 IF k \in DOMAIN initial_data THEN initial_data[k]
                 ELSE PyValue(uuid)
          [] k = "timestamp" -> now
          [] k = "status" -> PyValue("parsing")
          [] k \in {"errors", "warnings"} -> PyList(<<>>)
          [] k \in {"feedback_loop", "requires_user_input"} ->
                 PyValue("False")
          [] OTHER -> PyValue("None")]

\* The loop of update_state over updates.items(), a sequence of <<key,
\* value>> in the dict's order: a key the state does not have is passed
\* over; list.extend on a value that is no list raises AttributeError and
\* leaves what was applied before it.
RECURSIVE apply_updates(_, _)
apply_updates(current, updates) ==
    IF updates = <<>> THEN [after |-> current, error |-> "none"]
    ELSE LET key == Head(updates)[1]
             value == Head(updates)[2]
         IN  IF key \notin DOMAIN current
             THEN apply_updates(current, Tail(updates))
             ELSE IF key \in {"messages", "errors", "warnings"}
                     /\ value.is_list
             THEN IF current[key].is_list
                  THEN apply_updates(
                           [current EXCEPT
                               ![key] = PyList(@.items \o value.items)],
                           Tail(updates))
                  ELSE [after |-> current, error |-> "AttributeError"]
             ELSE apply_updates([current EXCEPT ![key] = value],
                                Tail(updates))

\* StateManager.update_state: the state it leaves and the error it raises
update_state(current, updates, now) ==
    IF DOMAIN current = {}
    THEN [after |-> current, error |-> "RuntimeError"]
    ELSE LET applied == apply_updates(current, updates)
         IN  IF applied.error # "none" THEN applied
             ELSE [after |-> [applied.after EXCEPT !["timestamp"] = now],
                   error |-> "none"]

StInit ==
    /\ current_state = NoState
    /\ state_history = <<>>
    /\ st_call = [op |-> "none", updates |-> <<>>, before |-> NoState,
                  error |-> "none"]
    /\ routes = {}
    /\ handoff = [from |-> "none"]

InitializeState(initial_data, uuid) ==
    /\ Len(state_history) < MaxHistory
    /\ current_state' = initialize_state(initial_data, uuid,
                                         Now(Len(state_history) + 1))
    /\ state_history' = Append(state_history, current_state')
    /\ st_call' = [op |-> "initialize_state", updates |-> <<>>,
                   before |-> current_state, error |-> "none"]
    /\ UNCHANGED <<wf_vars, cl_vars, tool_vars, routes, handoff>>

UpdateState(updates) ==
    /\ Len(state_history) < MaxHistory
    /\ LET r == update_state(current_state, updates,
                             Now(Len(state_history) + 1))
       IN  /\ current_state' = r.after
           /\ state_history' = IF r.error = "none"
                               THEN Append(state_history, r.after)
                               ELSE state_history
           /\ st_call' = [op |-> "update_state", updates |-> updates,
                          before |-> current_state, error |-> r.error]
    /\ UNCHANGED <<wf_vars, cl_vars, tool_vars, routes, handoff>>

\* The condition of the synthesis node applied to a state with the flags f
Route(f) ==
    /\ routes' = routes \cup {[flags |-> f, node |-> llm_to_other_node(f)]}
    /\ UNCHANGED <<wf_vars, cl_vars, tool_vars, current_state,
                   state_history, st_call, handoff>>

\* The conditional edge of the branch b applied to a state with the flags f:
\* add_conditional_edges(b, condition, table), every table of the graph
\* mapping a name to the node of that name.
Handoff(b, f) ==
    /\ handoff' =
          [from |-> b, flags |-> f,
           node |-> CASE b = "read_document_content" ->
                             read_document_to_llm_condition(f)
                      [] b = "retrieval_vector_database" ->
                             retrieval_database_to_llm_condition(f)
                      [] b = "lsp_diagnostics" ->
                             lsp_diagnostics_to_llm_condition(f)]
    /\ UNCHANGED <<wf_vars, cl_vars, tool_vars, current_state,
                   state_history, st_call, routes>>

\* The conditions of the graph applied to every combination of the flags
RouteNext ==
    \E f \in [is_document_read : BOOLEAN, is_lsp_diagnosed : BOOLEAN,
              is_code_retrieved : BOOLEAN] :
        \/ Route(f)
        \/ \E b \in Branches : Handoff(b, f)

\* The calls made: initialize_state with nothing given, or with messages
\* and a diff; update_state with updates to sequence fields, to a scalar
\* field, to the timestamp, to a field CodeReviewState declares and the
\* manager's dict lacks, to a field nobody declares, and with a string for
\* a sequence field; the condition with every combination of the flags
StNext ==
    \/ \E d \in {NoState,
                  ("messages" :> PyList(<<"m0">>))
                      @@ ("git_diff" :> PyValue("d1"))},
          u \in {"u1", "u2"} : InitializeState(d, u)
    \/ \E u \in {<<<<"messages", PyList(<<"m1">>)>>>>,
                  <<<<"errors", PyList(<<"e1">>)>>,
                    <<"status", PyValue("error")>>>>,
                  <<<<"git_diff", PyValue("d2")>>>>,
                  <<<<"timestamp", PyValue("t9")>>>>,
                  <<<<"is_document_read", PyValue("True")>>>>,
                  <<<<"reviewer", PyValue("r1")>>,
                    <<"warnings", PyList(<<"w1">>)>>>>,
                  <<<<"messages", PyValue("text")>>>>} : UpdateState(u)
    \/ \E f \in [is_document_read : BOOLEAN, is_lsp_diagnosed : BOOLEAN,
                 is_code_retrieved : BOOLEAN] : Route(f)


(***************************************************************************)
(* Specifications                                                          *)
(***************************************************************************)
Init == WfInit /\ ClInit /\ ToolInit /\ StInit

WfNext ==
    \/ review_code
    \/ \E n \in Nodes : NodeStart(n)
    \/ \E n \in Nodes : NodeFinish(n)
    \/ \E n \in Nodes : NodeRaise(n)
    \/ StepEnd

SpecWorkflow == Init /\ [][WfNext]_vars

\* The event loop runs every ready task, and the claim about termination
\* supposes that a started body ends: starting, finishing and the step's end
\* are weakly fair; raising is not.
WfFairness ==
    /\ WF_vars(review_code)
    /\ \A n \in Nodes : WF_vars(NodeStart(n)) /\ WF_vars(NodeFinish(n))
    /\ WF_vars(StepEnd)

SpecWorkflowFair == Init /\ [][WfNext]_vars /\ WfFairness

SpecClient == Init /\ [][ClNext]_vars

\* The clock runs, a timer that is due fires, and the event loop resumes a
\* task that was woken: these are weakly fair.  Nothing obliges the server to
\* answer or the reader loop to be given bytes.
ClFairness ==
    /\ WF_vars(AdvanceTime)
    /\ \A t \in Tasks : WF_vars(TimeoutFire(t)) /\ WF_vars(RequestReturn(t))

SpecClientFair == Init /\ [][ClNext]_vars /\ ClFairness

SpecReader == Init /\ [][ReaderNext]_vars

SpecFraming == Init /\ [][FramingNext]_vars

SpecCache == Init /\ [][CacheNext]_vars

\* one caller at a time
SpecTool == Init /\ [][ToolNext({"c1"})]_vars

\* two callers
SpecToolConcurrent == Init /\ [][ToolNext(Callers)]_vars

SpecReview == Init /\ [][ReviewNext]_vars

SpecChunks == Init /\ [][ChunkNext]_vars

SpecState == Init /\ [][StNext]_vars

SpecRoutes == Init /\ [][RouteNext]_vars

SpecShutdown == Init /\ [][ShutdownNext]_vars

SpecDiagnose == Init /\ [][DiagnoseNext]_vars

(***************************************************************************)
(* Claims about the workflow                                               *)
(***************************************************************************)
Visited(n) == node_status[n] \in {"running", "finished"}

\* C1: the publish node display_on_github is visited at most once in a run,
\* and whenever it is visited all three gating flags are true.
C1_PublishOnceAllFlags ==
    /\ visits["display_on_github"] <= 1
    /\ Visited("display_on_github") =>
          /\ AllFlags(Flags(state))
          /\ AllFlags(seen_flags["display_on_github"])

C1_Witness ==
    /\ run_status = "done"
    /\ visits["display_on_github"] = 1
    /\ AllFlags(seen_flags["display_on_github"])

\* C2: whatever the order in which the three branch bodies complete, the
\* synthesis node llm_diagnostics runs only after all three have completed,
\* runs exactly once in a run that returns, and receives all three gating
\* flags true.
BranchesCompleted ==
    \A b \in Branches : \E i \in 1..Len(completion) : completion[i] = b

C2_SynthesisOnceAllFlags ==
    /\ visits["llm_diagnostics"] <= 1
    /\ visits["llm_diagnostics"] = 1 =>
          /\ BranchesCompleted
          /\ AllFlags(seen_flags["llm_diagnostics"])
    /\ run_status = "done" => visits["llm_diagnostics"] = 1

\* A run that returned in which the branches completed in the reverse of the
\* order in which their edges were added.
C2_Witness ==
    /\ run_status = "done"
    /\ visits["llm_diagnostics"] = 1
    /\ completion = <<"start", "retrieval_vector_database",
                      "lsp_diagnostics", "read_document_content",
                      "llm_diagnostics", "display_on_github">>

\* C3: if no body raises, a started run reaches the publish node, the publish
\* node completes exactly once and review_code returns the merged state; the
\* run does not cycle between the synthesis node and the branches.
RunReturned ==
    /\ run_status = "done"
    /\ visits["display_on_github"] = 1
    /\ final_state = state
    /\ AllFlags(Flags(state))

C3_RunTerminates ==
    /\ [](run_status = "done" => RunReturned)
    /\ (run_status = "running") ~> (run_status = "raised" \/ RunReturned)

C3_Witness ==
    /\ RunReturned
    /\ completion[Len(completion)] = "display_on_github"
    /\ \A n \in Branches : visits[n] = 1

(***************************************************************************)
(* Claims about the client session                                         *)
(***************************************************************************)
HasId(message) == IsObj(message) /\ ObjHas(message, Str.id)

\* the ids of the requests given to _send_message, in the order of issue
SentIds ==
    LET requests == SelectSeq(sent, HasId)
    IN [i \in 1..Len(requests) |-> ObjGet(requests[i], Str.id).v]

\* a response to request k: it carries the id and no method
IsResponseTo(message, k) ==
    /\ HasId(message)
    /\ ObjGet(message, Str.id) = JInt(k)
    /\ ~ObjHas(message, Str.method)

\* C4: a request for which no matching response arrives does not hang: a
\* waiting request always comes to an end, and a request that ends by its
\* deadline does so when 30 time units have passed, returns None, raises no
\* error and leaves no slot behind.
C4_TimeoutReturnsNone ==
    /\ [][\A t \in Tasks :
            (pc[t] = "req_wait" /\ wake[t] = "timeout" /\ pc'[t] = "idle") =>
               /\ elapsed[t] = RequestTimeout
               /\ outcome'[my_id[t]] = Returned(None)
               /\ my_id[t] \notin DOMAIN pending_requests']_vars
    /\ \A t \in Tasks : (pc[t] = "req_wait") ~> (pc[t] # "req_wait")

\* A request has returned None at its deadline and no message with its id
\* was ever handled.
C4_Witness ==
    \E t \in Tasks :
       /\ pc[t] = "idle"
       /\ my_id[t] # 0
       /\ elapsed[t] = RequestTimeout
       /\ outcome[my_id[t]] = Returned(None)
       /\ my_id[t] \notin DOMAIN pending_requests
       /\ \A i \in 1..Len(handled) :
             ~(HasId(handled[i]) /\ ObjGet(handled[i], Str.id) = JInt(my_id[t]))

\* C5: no pending slot is left dangling: the id of a request that has
\* finished, in whatever way, is not in the pending table, and the table is
\* empty whenever no request is outstanding.
C5_NoDanglingSlot ==
    /\ \A k \in DOMAIN outcome :
          outcome[k].kind # "open" => k \notin DOMAIN pending_requests
    /\ (\A k \in DOMAIN outcome : outcome[k].kind # "open") =>
          DOMAIN pending_requests = {}

\* C6: the ids of the requests are unique and strictly increasing in the
\* order of issue, whatever the interleaving of the tasks' requests and
\* notifications; a notification carries no id and consumes none.
C6_IdsStrictlyIncreasing ==
    /\ \A i, j \in 1..Len(SentIds) : i < j => SentIds[i] < SentIds[j]
    /\ request_id = Len(SentIds)
    /\ \A i \in 1..Len(sent) :
          ObjGet(sent[i], Str.method) = JStr(Str.initialized) =>
             ~ObjHas(sent[i], Str.id)

\* Two tasks have a request outstanding each, with a notification issued
\* between the two requests.
C6_Witness ==
    /\ Len(sent) = 3
    /\ HasId(sent[1]) /\ ~HasId(sent[2]) /\ HasId(sent[3])
    /\ pc["t1"] = "req_wait" /\ pc["t2"] = "req_wait"
    /\ my_id["t1"] # my_id["t2"]

\* C7: a response with id k that the reader receives after request k was
\* written and before its deadline resolves request k, which returns the
\* result of that response; the slot of k is registered when the request is
\* written.
C7_ResponseResolvesRequest ==
    /\ \A i \in 1..Len(SentIds) : SentIds[i] \in DOMAIN outcome
    /\ \A t \in Tasks :
          (/\ my_id[t] # 0
           /\ pc[t] = "idle"
           /\ elapsed[t] < RequestTimeout
           /\ \E i \in 1..Len(handled) : IsResponseTo(handled[i], my_id[t]))
          => \E i \in 1..Len(handled) :
                /\ IsResponseTo(handled[i], my_id[t])
                /\ outcome[my_id[t]] = response_result(handled[i])

(***************************************************************************)
(* Claims about the reader loop                                            *)
(***************************************************************************)
\* the reader loop has taken all it can from the stream
ReaderIdle ==
    /\ read_task.status # "none"
    /\ read_task.status = "running" => ReaderBlocked(Session)

Malformed(f) == f.kind \in MalformedKinds

\* the messages of the well-formed frames sent, in order
WellFormedMessages ==
    LET good == SelectSeq(frames, LAMBDA f : f.kind = "well_formed")
    IN [i \in 1..Len(good) |-> good[i].msg]

\* the diagnostics of every well-formed publication sent are cached
PublishedAreCached ==
    \A i \in 1..Len(frames) :
       (/\ frames[i].kind = "well_formed"
        /\ ObjGetOr(frames[i].msg, Str.method, JNull)
              = JStr(Str.publishDiagnostics))
       => ObjGet(ObjGet(frames[i].msg, Str.params), Str.uri)
             \in {diagnostics_cache[k].uri : k \in 1..Len(diagnostics_cache)}

\* On an open stream on which one frame of the given kinds and otherwise
\* well-formed frames were sent, the reader loop is still running once it has
\* taken all it can, and it has handled every well-formed frame.
SurvivesOne(kinds) ==
    (/\ ~eof
     /\ ReaderIdle
     /\ Len(SelectSeq(frames, Malformed)) = 1
     /\ \E i \in 1..Len(frames) : frames[i].kind \in kinds)
    => /\ read_task.status = "running"
       /\ handled = WellFormedMessages
       /\ PublishedAreCached

\* C8: a frame whose headers lack Content-Length is skipped without ending
\* the reader loop, and the next well-formed frame is parsed and handled.
C8_MissingLengthSkipped ==
    SurvivesOne({"no_length", "no_length_no_payload"})

\* C9: a single malformed frame of any kind (a Content-Length that is no
\* number or is negative, a payload that cannot be decoded or is no JSON, a
\* diagnostics entry without its range) never ends the reader loop, which
\* handles every later well-formed frame.
C9_MalformedFrameSurvived ==
    SurvivesOne({"bad_length", "negative_length", "undecodable",
                 "invalid_json", "bad_entry"})

(***************************************************************************)
(* Claims about the framing                                                *)
(***************************************************************************)
\* C10: the bytes that _send_message writes for a message, fed to the reader
\* loop, yield that message: the loop does not end, and once it has taken all
\* it can it has consumed every byte and has handled exactly the messages
\* written, in order.
C10_FramingRoundTrip ==
    /\ read_task.status \in {"none", "running"}
    /\ (read_task.status = "running" /\ ReaderBlocked(Session)) =>
          /\ rbuf = <<>>
          /\ read_task.at = "readline"
          /\ handled = sent

\* Two messages were written, the first with a text that has a non-ASCII
\* character, a quote and a newline, and both have come back.
C10_Witness ==
    /\ Len(sent) = 2
    /\ sent[1] = NotifyMessage(Str.didOpen, DidOpenParams(Str.uri_A))
    /\ HasId(sent[2])
    /\ handled = sent
    /\ rbuf = <<>>

(***************************************************************************)
(* Claims about the diagnostics cache and its lookups                      *)
(***************************************************************************)
\* the URIs that name the file of a query path
NamesFile(file_path) ==
    IF file_path \in {Files.ab, Files.relative}
    THEN {JStr(Files.ab_escaped), JStr(Files.ab_all_escaped),
          JStr(Files.ab_unescaped)}
    ELSE IF file_path = Files.B THEN {JStr(Str.uri_B)}
    ELSE {}

\* the uri a handled publication names, and the entries it carries
PublishedUri(message) == ObjGet(ObjGet(message, Str.params), Str.uri)
PublishedEntries(message) ==
    ObjGet(ObjGet(message, Str.params), Str.diagnostics).items

\* the publications among the first n handled messages that name the file
PublicationsFor(file_path, n) ==
    {k \in 1..n : PublishedUri(handled[k]) \in NamesFile(file_path)}

\* the record set of the last of them (none when there is none)
LastPublished(file_path, n) ==
    IF PublicationsFor(file_path, n) = {} THEN <<>>
    ELSE LET k == CHOOSE j \in PublicationsFor(file_path, n) :
                     \A i \in PublicationsFor(file_path, n) : i <= j
         IN PublishedRecords(ObjGet(handled[k], Str.params))

\* every publication handled before the lookup named its resource by a text
UrisAreTexts == \A k \in 1..lookup.seen : PublishedUri(handled[k]).t = "str"

\* C11: after any sequence of publications that name their resources by URI,
\* a lookup for a file gives the record set of the publication that arrived
\* last among those naming the file, whichever URI form each of them used.
C11_LastWriteWins ==
    (/\ lookup.path \in {Files.ab, Files.B}
     /\ UrisAreTexts)
    => lookup.result = Returned(LastPublished(lookup.path, lookup.seen))

\* C12: diagnostics cached under a percent-escaped URI of a file are given
\* to a lookup by the file's native path, and diagnostics cached under the
\* unescaped URI are given to a lookup whose own URI form is escaped: each
\* record set cached under a URI that names the file is what the lookup
\* gives.
C12_FormsAreEquivalent ==
    lookup.path = Files.ab =>
       \A i \in 1..Len(diagnostics_cache) :
          diagnostics_cache[i].uri \in NamesFile(Files.ab)
             => get_diagnostics(diagnostics_cache, Files.ab)
                   = Returned(diagnostics_cache[i].records)

\* C13: a lookup never raises, whatever path it is given and whatever the
\* cache holds, and it gives the empty set for a file no publication named.
C13_UnrecordedIsEmpty ==
    /\ lookup.result.kind # "raised"
    /\ (/\ lookup.path # <<>>
        /\ PublicationsFor(lookup.path, lookup.seen) = {})
       => lookup.result = Returned(<<>>)

\* the severity taxonomy of the protocol
SeverityLabel ==
    (1 :> "Error") @@ (2 :> "Warning") @@ (3 :> "Info") @@ (4 :> "Hint")

\* wire entry e is surfaced as dict d
SurfacedAs(e, d) ==
    /\ d.kind = "returned"
    /\ d.value.line
          = ObjGet(ObjGet(ObjGet(e, Str.range), Str.start), Str.line).v + 1
    /\ d.value.severity = SeverityLabel[ObjGet(e, Str.severity).v]
    /\ d.value.message = ObjGet(e, Str.message)

\* C14: every record a lookup surfaces is a diagnostic received on the wire
\* for that file, with its line raised by one and its severity as the label
\* of the taxonomy; every diagnostic of the publication the lookup reads is
\* surfaced so.
C14_OneBasedLineAndLabel ==
    lookup.result.kind = "returned" =>
       /\ Len(lookup.dicts) = Len(lookup.result.value)
       /\ lookup.dicts # <<>> =>
             \E k \in PublicationsFor(lookup.path, lookup.seen) :
                /\ Len(PublishedEntries(handled[k])) = Len(lookup.dicts)
                /\ \A i \in 1..Len(lookup.dicts) :
                      SurfacedAs(PublishedEntries(handled[k])[i],
                                 lookup.dicts[i])

\* A diagnostic of severity 1 at wire line 0 was surfaced as line 1, "Error".
C14_Witness ==
    /\ lookup.result.kind = "returned"
    /\ Len(lookup.dicts) = 1
    /\ lookup.result.value[1].range.start.line = JInt(0)
    /\ lookup.result.value[1].severity = JInt(1)
    /\ lookup.dicts[1].value.line = 1
    /\ lookup.dicts[1].value.severity = "Error"

(***************************************************************************)
(* Claims about the diagnostic tool and the server manager                 *)
(***************************************************************************)
\* caller t has come out of a start_server(ws) that found the tool running
\* on ws
StartedSameWorkspace(t) ==
    /\ \/ callers[t].ctx = "start" /\ callers[t].status = "returned"
       \/ callers[t].ctx = "diag_body"
    /\ callers[t].entry.running
    /\ callers[t].entry.ws = callers[t].ws

\* C15: start_server for the workspace the tool is already running on is a
\* no-op: no process is launched, no scratch directory is made, and the
\* tool keeps its client session and stays running on that workspace.
C15_SameWorkspaceIsNoop ==
    \A t \in Callers :
       StartedSameWorkspace(t) =>
          /\ Len(procs) = callers[t].entry.procs
          /\ Len(dirs) = callers[t].entry.dirs
          /\ tool = [is_server_running |-> TRUE,
                     workspace_path |-> callers[t].ws,
                     client |-> callers[t].entry.client]

\* start_server was called a second time for the same workspace and has
\* returned, with the one process still there.
C15_Witness ==
    /\ callers["c1"].ctx = "start"
    /\ callers["c1"].status = "returned"
    /\ callers["c1"].made = 2
    /\ StartedSameWorkspace("c1")
    /\ Len(procs) = 1
    /\ procs[1].alive

\* C16: a process launched by a start_server that found a server running
\* (on another workspace) is launched only after the prior process has
\* exited and the deletion of its scratch directory has been attempted.
C16_PriorStoppedFirst ==
    \A p \in 1..Len(procs) :
       procs[p].restart =>
          /\ p > 1
          /\ ~procs[p - 1].alive
          /\ procs[p - 1].term
          /\ dirs[p - 1].attempted

\* A second process was launched for another workspace while the tool was
\* running.
C16_Witness ==
    /\ Len(procs) = 2
    /\ procs[2].restart
    /\ procs[2].ws # procs[1].ws
    /\ procs[2].alive

\* C17: at every moment at most one server process launched through the
\* tool is alive, under any interleaving of start_server, stop_server and
\* diagnose calls.
C17_AtMostOneProcessAlive ==
    Cardinality({p \in 1..Len(procs) : procs[p].alive}) <= 1

\* C18: stop() requests termination, waits at most StopTimeout for the
\* exit, kills the process only when that wait has expired without the
\* exit, and returns only once the process has exited (so a process that
\* ignores the request has been killed by then).
C18_StopTerminatesThenKills ==
    /\ \A p \in 1..Len(procs) :
          /\ procs[p].waited <= StopTimeout
          /\ procs[p].kill => procs[p].term /\ procs[p].waited = StopTimeout
          /\ procs[p].stop = "returned" => procs[p].term /\ ~procs[p].alive
          /\ (procs[p].stop = "returned" /\ procs[p].ignores)
                => procs[p].kill
    /\ \A t \in Callers :
          /\ callers[t].pc = "stop_wait" =>
                /\ callers[t].waited <= StopTimeout
                /\ procs[manager.process].term
          /\ callers[t].pc = "kill_wait" => procs[manager.process].kill

\* stop() has returned for a process that ignored the terminate request and
\* was killed when the wait had expired.
C18_Witness ==
    \E p \in 1..Len(procs) :
       /\ procs[p].stop = "returned"
       /\ procs[p].ignores
       /\ procs[p].kill
       /\ procs[p].waited = StopTimeout

\* C19: whenever stop() is called, the deletion of the scratch directory is
\* attempted before stop() ends, whatever state the process is in, and a
\* failed deletion does not make stop() raise.
C19_DeletionAlwaysAttempted ==
    \A p \in 1..Len(procs) :
       /\ procs[p].stop \in {"returned", "raised"} => dirs[p].attempted
       /\ dirs[p].attempted => procs[p].stop = "returned"

(***************************************************************************)
(* Claims about errors in the workflow                                     *)
(***************************************************************************)
\* C20: when a node body raises, the run is aborted and review_code gives
\* its caller the state accumulated so far with a non-empty error
\* accumulator.
C20_RaiseReturnsStateWithErrors ==
    run_status = "raised" =>
       /\ final_state # "none"
       /\ final_state.errors # <<>>

(***************************************************************************)
(* Claims about the routing condition and the state manager                *)
(***************************************************************************)
\* C30: the condition of the synthesis node checks the flags in the order
\* document read, diagnostics, semantic retrieval: for every combination of
\* the three flags it returns the node of the first flag that is false, and
\* it returns the publish node exactly when all three are true.
C30_FirstUnmetBranch ==
    \A r \in routes :
        /\ ~r.flags.is_document_read => r.node = "read_document_content"
        /\ r.flags.is_document_read /\ ~r.flags.is_lsp_diagnosed
               => r.node = "lsp_diagnostics"
        /\ r.flags.is_document_read /\ r.flags.is_lsp_diagnosed
              /\ ~r.flags.is_code_retrieved
               => r.node = "retrieval_vector_database"
        /\ r.node = "display_on_github" <=> AllFlags(r.flags)

\* All eight combinations have been evaluated, among them the one where
\* diagnostics and retrieval are both missing and diagnostics is chosen.
C30_Witness ==
    /\ Cardinality({r.flags : r \in routes}) = 8
    /\ \E r \in routes :
          /\ r.flags.is_document_read
          /\ ~r.flags.is_lsp_diagnosed /\ ~r.flags.is_code_retrieved
          /\ r.node = "lsp_diagnostics"

\* The last call was an update_state that returned
UpdateReturned ==
    /\ st_call.op = "update_state"
    /\ st_call.error = "none"

\* C27: an update is merged by the declared policy of each field: the items
\* given for messages, errors and warnings are appended after the existing
\* ones, and for every other field of the review state the update's value
\* replaces the existing one.
C27_MergeFollowsPolicy ==
    UpdateReturned =>
        \A i \in 1..Len(st_call.updates) :
            LET key == st_call.updates[i][1]
                value == st_call.updates[i][2]
            IN  key \in DeclaredFields =>
                    /\ key \in DOMAIN current_state
                    /\ IF key \in {"messages", "errors", "warnings"}
                       THEN value.is_list =>
                                current_state[key] =
                                    PyList(st_call.before[key].items
                                           \o value.items)
                       ELSE current_state[key] = value

\* The keys of the state are those initialize_state gave it
FieldsAreFixed ==
    current_state # NoState =>
        DOMAIN current_state =
            DOMAIN initialize_state(NoState, "u1", Now(1))

\* C28: an update naming a field that is not declared is rejected: the
\* state keeps exactly the fields it was initialized with, and the update
\* is reported as rejected (update_state raises) and nothing of it is
\* applied.
C28_UnknownFieldRejected ==
    /\ FieldsAreFixed
    /\ ( /\ st_call.op = "update_state"
         /\ st_call.before # NoState
         /\ \E i \in 1..Len(st_call.updates) :
               st_call.updates[i][1]
                   \notin DeclaredFields \cup DOMAIN st_call.before )
       => /\ st_call.error # "none"
          /\ current_state = st_call.before

(***************************************************************************)
(* Claims about the merge of concurrent branches                           *)
(***************************************************************************)
\* What the state is once the bodies named in order (with diag the result
\* of the diagnostics body) have been merged one after the other into s
RECURSIVE MergedInOrder(_, _, _)
MergedInOrder(s, order, diag) ==
    IF order = <<>> THEN s
    ELSE MergedInOrder(
             CASE Head(order) = "read_document_content" ->
                      [s EXCEPT !.is_document_read = TRUE,
                                !.document = "doc_text"]
               [] Head(order) = "retrieval_vector_database" ->
                      [s EXCEPT !.is_code_retrieved = TRUE,
                                !.semantic_analysis = s.git_diff]
               [] Head(order) = "lsp_diagnostics" ->
                      [s EXCEPT !.is_lsp_diagnosed = TRUE,
                                !.diagnostics = diag]
               [] OTHER -> s,
             Tail(order), diag)

C29_PayloadReadWhole ==
    (ReaderIdle /\ in_flight = <<>>) =>
        /\ rbuf = <<>>
        /\ read_task.status = "running"
        /\ read_task.at = "readline"
        /\ read_task.headers = NoHeaders
        /\ handled = WellFormedMessages

(***************************************************************************)
(* Claims about cancellation, the lifecycle and shutdown                   *)
(***************************************************************************)
\* C25: a request that is outstanding when its caller is cancelled is
\* treated as timed out: its pending slot is removed and the call ends
\* with the empty result of a timeout, not with an error.
C25_CancelledRequestTimesOut ==
    \A t \in Tasks :
        pc[t] = "cancelled" =>
            /\ my_id[t] \notin DOMAIN pending_requests
            /\ outcome[my_id[t]] = timeout_result

\* C22: the client is READY before documents are opened or closed: on
\* every client, open_document and close_document come only after the
\* initialize request was answered and the initialized notification sent.
C22_OpenOnlyWhenReady ==
    \A p \in 1..Len(procs) :
        \A i \in 1..Len(procs[p].log) :
            procs[p].log[i] \in {"open_document", "close_document"} =>
                \E j \in 1..(i - 1) : procs[p].log[j] = "initialized"

\* C23: once shutdown() has been called on a client (its reader loop is
\* cancelled), nothing but shutdown is done on that client: no document is
\* opened or closed and no other request is sent.
C23_NothingAfterShutdown ==
    \A p \in 1..Len(procs) :
        \A i \in 1..Len(procs[p].log) :
            procs[p].log[i] = "shutdown" =>
                \A j \in (i + 1)..Len(procs[p].log) :
                    procs[p].log[j] = "shutdown"

\* C24: shutdown is best-effort: when client.shutdown() raised, the error
\* is swallowed and stop_server still stops the server and ends, without an
\* error of its own, with the tool not running, its client cleared and its
\* workspace cleared.
C24_StopServerSurvivesShutdownError ==
    \A t \in Callers :
        ( /\ callers[t].pc = "done"
          /\ callers[t].ctx \in {"stop", "diag_finally"}
          /\ callers[t].swallowed # "none" )
        => /\ ~tool.is_server_running
           /\ tool.client = 0
           /\ tool.workspace_path = "none"
           /\ callers[t].exc # "ProcessLookupError"
           /\ callers[t].ctx = "stop" => callers[t].status = "returned"

(***************************************************************************)
(* Claims about failures of the server in a run                            *)
(***************************************************************************)
\* the call of the tool failed because jdtls was not found or because the
\* server process was gone
ServerFailed ==
    /\ callers["c1"].status = "raised"
    /\ callers["c1"].exc \in {"FileNotFoundError", "ConnectionResetError",
                              "ProcessLookupError"}

\* a server process that exited on its own never leaves diagnose returning
\* as if nothing had happened
ExitIsNeverSilent ==
    ( /\ callers["c1"].made = 1
      /\ callers["c1"].pc = "done"
      /\ \E p \in 1..Len(procs) :
            ~procs[p].alive /\ ~procs[p].term /\ ~procs[p].kill )
    => callers["c1"].status = "raised"

\* C21: when the server executable is not found, or the server process
\* exits during the session, the run is aborted and review_code gives its
\* caller the partial state with a non-empty error accumulator; the
\* failure does not end as a diagnostics result.
C21_ServerFailureReturnsStateWithErrors ==
    (ServerFailed /\ run_status \in {"raised", "done", "recursion_limit"})
    => /\ final_state # "none"
       /\ final_state.errors # <<>>
       /\ ~final_state.is_lsp_diagnosed

\* C31: a branch hands off to the synthesis node only when its own gating
\* flag is true: its conditional edge returns llm_diagnostics if and only if
\* the branch's own flag is set in the state the edge reads, and returns the
\* branch's own node otherwise, whatever the other two flags are.
OwnFlag(b, f) ==
    CASE b = "read_document_content" -> f.is_document_read
      [] b = "retrieval_vector_database" -> f.is_code_retrieved
      [] b = "lsp_diagnostics" -> f.is_lsp_diagnosed

C31_HandoffOnlyOnOwnFlag ==
    handoff.from \in Branches =>
       /\ handoff.node = "llm_diagnostics" <=> OwnFlag(handoff.from, handoff.flags)
       /\ ~OwnFlag(handoff.from, handoff.flags) => handoff.node = handoff.from

\* The document branch kept on its own node although the other two flags
\* are set.
C31_Witness ==
    /\ handoff.from = "read_document_content"
    /\ ~handoff.flags.is_document_read
    /\ handoff.flags.is_lsp_diagnosed /\ handoff.flags.is_code_retrieved
    /\ handoff.node = "read_document_content"

\* C40: in a run in which no node body raises, each of the three branch
\* bodies executes exactly once: no branch is entered a second time, neither
\* by its own conditional edge nor by an edge of the synthesis node leading
\* back to it, since each body's update carries the branch's own flag set
\* and the branch's edge reads the state with that update applied.
TimesCompleted(n) ==
    Cardinality({i \in 1..Len(completion) : completion[i] = n})

C40_BranchBodiesRunOnce ==
    /\ \A b \in Branches : visits[b] <= 1 /\ TimesCompleted(b) <= 1
    /\ run_status = "done" =>
          \A b \in Branches : visits[b] = 1 /\ TimesCompleted(b) = 1

\* The synthesis node has run and selected the publish node, and every
\* branch has been entered once.
C40_Witness ==
    /\ run_status = "done"
    /\ visits["llm_diagnostics"] = 1
    /\ AllFlags(seen_flags["llm_diagnostics"])
    /\ \A b \in Branches : visits[b] = 1 /\ TimesCompleted(b) = 1
    /\ Len(completion) = 6

\* C33: a pending request is resolved only by a response to it: a message
\* of the server that carries a method name never resolves a pending slot,
\* even when its id equals the id of an outstanding request of the client.
C33_OnlyResponsesResolve ==
    \A k \in DOMAIN pending_requests :
       pending_requests[k].st = "done" =>
          IsResponseTo(pending_requests[k].msg, k)

\* C34: a second response with the id of a request that is already resolved,
\* arriving before the requester has resumed and removed its slot, is
\* ignored: the reader loop does not end and goes on to later frames.  With
\* a server that sends nothing but responses and has not exited, the reader
\* loop is running.
OnlyResponsesSent ==
    \A i \in 1..Len(frames) :
       /\ frames[i].kind = "well_formed"
       /\ \E k \in RequestIds : IsResponseTo(frames[i].msg, k)

C34_DuplicateResponseIgnored ==
    (~eof /\ read_task.status # "none" /\ OnlyResponsesSent)
    => read_task.status = "running"

\* C38: a response that arrives after the deadline of its request has
\* expired is discarded: handling it leaves the pending table and the
\* diagnostics cache as they were, so it resolves no other, later request.
Expired(k) ==
    \E t \in Tasks :
       /\ my_id[t] = k
       /\ elapsed[t] = RequestTimeout
       /\ \/ pc[t] = "req_wait" /\ wake[t] = "timeout"
          \/ pc[t] = "idle" /\ outcome[k] = timeout_result

C38_LateResponseDiscarded ==
    [][\A k \in RequestIds :
          (/\ Expired(k)
           /\ Len(handled') = Len(handled) + 1
           /\ IsResponseTo(handled'[Len(handled')], k))
          => /\ pending_requests' = pending_requests
             /\ diagnostics_cache' = diagnostics_cache]_vars

\* Request 1 ended at its deadline, request 2 of the other task is
\* outstanding, and the response to request 1 has been handled since.
C38_Witness ==
    \E t, u \in Tasks :
       /\ my_id[t] = 1 /\ pc[t] = "idle" /\ elapsed[t] = RequestTimeout
       /\ outcome[1] = timeout_result
       /\ my_id[u] = 2 /\ pc[u] = "req_wait"
       /\ pending_requests[2].st = "pending"
       /\ handled = <<Response(1, InitializeResult)>>
       /\ read_task.status = "running"

\* the calls of diagnose that are over
DiagnoseOver(t) ==
    /\ callers[t].ctx \in {"diag_start", "diag_body", "diag_finally"}
    /\ callers[t].status \in {"returned", "raised"}

\* C35: after diagnose has returned or raised, no server process launched
\* during that call is still alive, also when start_server failed or was
\* cancelled after the process was launched and before the tool was marked
\* running.
C35_NoProcessLeftAlive ==
    \A t \in Callers :
       DiagnoseOver(t) =>
          \A p \in (callers[t].entry.procs + 1)..Len(procs) : ~procs[p].alive

\* C36: every scratch directory made by start_java_server has been deleted,
\* or its deletion attempted, when the diagnose call that made it has
\* returned or raised, also when jdtls was not found after the directory
\* was made.
C36_ScratchDirsDeleted ==
    \A t \in Callers :
       DiagnoseOver(t) =>
          \A d \in (callers[t].entry.dirs + 1)..Len(dirs) : dirs[d].attempted

\* C39: during diagnose the open and close notifications are paired and
\* ordered: every open of a file is followed by the close of that file
\* before the next file is opened and before the server is stopped, so at
\* most one document is open at any time; a file that does not exist is
\* never opened and gets an empty result.
C39_OpenClosePaired ==
    \A t \in Callers :
       /\ \A i \in 1..Len(callers[t].docs) :
             /\ exists(callers[t].docs[i].file)
             /\ callers[t].docs[i].op = IF i % 2 = 1 THEN "open" ELSE "close"
             /\ i % 2 = 0 =>
                   callers[t].docs[i].file = callers[t].docs[i - 1].file
       /\ callers[t].ctx = "diag_finally" => Len(callers[t].docs) % 2 = 0
       /\ (DiagnoseOver(t) /\ callers[t].status = "returned") =>
             \A i \in 1..Len(file_paths) :
                ~exists(file_paths[i]) =>
                   \E k \in 1..Len(callers[t].results) :
                      /\ callers[t].results[k].file = file_paths[i]
                      /\ callers[t].results[k].value = "empty"

IsShutdownRequest(message) ==
    ObjHas(message, Str.id)
    /\ ObjGetOr(message, Str.method, JNull) = JStr(Str.shutdown)

IsExit(message) == ObjGetOr(message, Str.method, JNull) = JStr(Str.exit)

\* C32: shutdown performs its steps in order: the reader loop is cancelled
\* first, then the shutdown request is written, then, once that request has
\* ended, the exit notification is written; the exit notification is never
\* written before the shutdown request.  So the reader loop is not running
\* once the shutdown request is written, every exit notification written
\* comes after a shutdown request that has ended, and a shutdown request
\* that has returned is followed by the exit notification.
C32_ShutdownOrder ==
    \A j \in 1..Len(sent) :
       /\ IsShutdownRequest(sent[j]) =>
             /\ read_task.status # "running"
             /\ outcome[ObjGet(sent[j], Str.id).v].kind = "returned" =>
                   \E k \in (j + 1)..Len(sent) : IsExit(sent[k])
       /\ IsExit(sent[j]) =>
             \E i \in 1..(j - 1) :
                /\ IsShutdownRequest(sent[i])
                /\ outcome[ObjGet(sent[i], Str.id).v].kind # "open"

\* The initialize request was answered, then shutdown was called: its
\* request and, after it, the exit notification were written, and the
\* reader loop is cancelled.
C32_Witness ==
    /\ Len(sent) = 3
    /\ ObjGet(sent[1], Str.method) = JStr(Str.initialize)
    /\ IsShutdownRequest(sent[2])
    /\ IsExit(sent[3])
    /\ read_task.status = "cancelled"
    /\ outcome[1] = response_result(Response(1, InitializeResult))

====
